---------------------------- MODULE Spec2Model ----------------------------
(***************************************************************************)
(* amia-proto3: the proto3 wire codec (encoder.rs, decoder.rs) and the     *)
(* schema-less message builder (builder.rs).                               *)
(*                                                                         *)
(* Machine integers are bit vectors: a u32/i32 is a function 0..31 ->      *)
(* {0,1}, a u64/i64 a function 0..63 -> {0,1} (bit 0 least significant,    *)
(* two's complement), so that shifts, casts and wrap-around are those of   *)
(* the Rust code.  A byte is a number 0..255, a Vec<u8> or &[u8] a         *)
(* sequence of bytes, a reader a byte sequence with a cursor position.     *)
(* usize is 64 bits wide.                                                  *)
(***************************************************************************)
EXTENDS Integers, Sequences, FiniteSets, TLC

VARIABLES
    wire,           \* codec: the Vec<u8> written by the encoder, read through a Cursor
    pos,            \* codec: position of the Cursor over wire
    src,            \* codec: the call that produced wire (history)
    call,           \* codec: the most recent call and its arguments
    ret,            \* codec: what the most recent call returned
    buffer,         \* ProtobufBuilder.buffer
    field_numbers,  \* ProtobufBuilder.field_numbers
    phase,          \* builder: "Open", "Built" once build() ran, "Aborted" after a panic
    calls,          \* builder: the add_* calls accepted since creation or the last build()
    passed,         \* builder: every field number passed to an add_* call since creation
    last,           \* builder: the most recent call on the builder
    built           \* builder: the Vec<u8> that call returned if it was build(), else <<>>

codecVars == <<wire, pos, src, call, ret>>
builderVars == <<buffer, field_numbers, phase, calls, passed, last, built>>
vars == <<wire, pos, src, call, ret, buffer, field_numbers, phase, calls, passed, last, built>>

-----------------------------------------------------------------------------
(* Bounds of the exploration *)

\* longest run of continuation-flagged bytes offered to the decoder
MaxCont == 11
\* longest bytes / string payload built from the byte alphabet
MaxLen == 2
\* longest list of values packed into one field
MaxItems == 3
\* longest byte sequence given to the Base64 encoder
MaxData == 4
\* longest text given to the Base64 decoder
MaxText == 4

-----------------------------------------------------------------------------
(* Machine integers *)

Bit == {0, 1}

\* the w-bit integer whose value is n (n below 2^31)
FromNat(w, n) == [i \in 0..(w - 1) |-> IF i <= 30 THEN (n \div (2 ^ i)) % 2 ELSE 0]

Zero(w) == [i \in 0..(w - 1) |-> 0]

IsZero(w, v) == \A i \in 0..(w - 1) : v[i] = 0

\* v >> k on an unsigned w-bit integer
Shr(w, v, k) == [i \in 0..(w - 1) |-> IF i + k < w THEN v[i + k] ELSE 0]

\* v >> k on a signed w-bit integer (arithmetic)
Sar(w, v, k) == [i \in 0..(w - 1) |-> IF i + k < w THEN v[i + k] ELSE v[w - 1]]

\* v << k, bits shifted out are lost
Shl(w, v, k) == [i \in 0..(w - 1) |-> IF i >= k THEN v[i - k] ELSE 0]

BitOr(w, a, b) == [i \in 0..(w - 1) |-> IF a[i] = 1 \/ b[i] = 1 THEN 1 ELSE 0]

BitXor(w, a, b) == [i \in 0..(w - 1) |-> IF a[i] # b[i] THEN 1 ELSE 0]

\* `v as u8`: the low eight bits as a byte
AsU8(v) ==
    v[0] + 2 * v[1] + 4 * v[2] + 8 * v[3] + 16 * v[4] + 32 * v[5] + 64 * v[6] + 128 * v[7]

\* `b as u64` for a byte b
ByteAsU64(b) == FromNat(64, b)

\* `v as u64` for v: u32
U32AsU64(v) == [i \in 0..63 |-> IF i < 32 THEN v[i] ELSE 0]

\* `v as u64` for v: i32 (sign extension, then reinterpretation)
I32AsU64(v) == [i \in 0..63 |-> IF i < 32 THEN v[i] ELSE v[31]]

\* `v as u32` / `v as i32` for a 64-bit v
AsU32(v) == [i \in 0..31 |-> v[i]]

\* value >= 0x80 for value: u64
AtLeast0x80(value) == \E i \in 7..63 : value[i] = 1

\* the number a 64-bit integer denotes when it is below 2^20, else -1 ("large")
SmallNat(v) ==
    IF \E i \in 20..63 : v[i] = 1 THEN -1
    ELSE LET RECURSIVE Sum(_)
             Sum(i) == IF i > 19 THEN 0 ELSE v[i] * (2 ^ i) + Sum(i + 1)
         IN Sum(0)

\* to_le_bytes of a w-bit integer (w = 32 or 64)
to_le_bytes(w, v) ==
    [k \in 1..(w \div 8) |->
        LET b == 8 * (k - 1)
        IN v[b] + 2 * v[b + 1] + 4 * v[b + 2] + 8 * v[b + 3] + 16 * v[b + 4]
           + 32 * v[b + 5] + 64 * v[b + 6] + 128 * v[b + 7]]

\* from_le_bytes of w \div 8 bytes
from_le_bytes(w, bytes) ==
    [i \in 0..(w - 1) |-> (bytes[(i \div 8) + 1] \div (2 ^ (i % 8))) % 2]

-----------------------------------------------------------------------------
(* lib.rs: WireType *)

Varint == 0
Fixed64 == 1
LengthDelimited == 2
StartGroup == 3
EndGroup == 4
Fixed32 == 5

-----------------------------------------------------------------------------
(* encoder.rs *)

\* make_tag shifting the field number by four bits
make_tag_shift4(field_number, wire_type) ==
    BitOr(32, Shl(32, field_number, 4), FromNat(32, wire_type))

\* (field_number << 3) | (wire_type as u32), in u32
make_tag(field_number, wire_type) ==
    BitOr(32, Shl(32, field_number, 3), FromNat(32, wire_type))

RECURSIVE encode_varint_gt(_)
\* encode_varint looping `while value > 0x80`
encode_varint_gt(value) ==
    IF AtLeast0x80(value) /\ value # FromNat(64, 128)
    THEN <<(AsU8(value) % 128) + 128>> \o encode_varint_gt(Shr(64, value, 7))
    ELSE <<AsU8(value)>>

RECURSIVE encode_varint(_)
\* the bytes written for value: u64
encode_varint(value) ==
    IF AtLeast0x80(value)
    THEN <<(AsU8(value) % 128) + 128>> \o encode_varint(Shr(64, value, 7))
    ELSE <<AsU8(value)>>

\* encode_zigzag shifting the sign out logically: (value << 1) ^ ((value as u64) >> 63)
encode_zigzag_logical(value) ==
    encode_varint(BitXor(64, Shl(64, value, 1), Shr(64, value, 63)))

\* ((value << 1) ^ (value >> 63)) as u64, then encode_varint
encode_zigzag(value) ==
    encode_varint(BitXor(64, Shl(64, value, 1), Sar(64, value, 63)))

encode_tag(field_number, wire_type) ==
    encode_varint(U32AsU64(make_tag(field_number, wire_type)))

encode_uint32(field_number, value) ==
    IF IsZero(32, value) THEN <<>>
    ELSE encode_tag(field_number, Varint) \o encode_varint(U32AsU64(value))

encode_int32(field_number, value) ==
    IF IsZero(32, value) THEN <<>>
    ELSE encode_tag(field_number, Varint) \o encode_varint(I32AsU64(value))

encode_int64(field_number, value) ==
    IF IsZero(64, value) THEN <<>>
    ELSE encode_tag(field_number, Varint) \o encode_varint(value)

\* encode_uint64 without the zero test
encode_uint64_unconditional(field_number, value) ==
    encode_tag(field_number, Varint) \o encode_varint(value)

encode_uint64(field_number, value) ==
    IF IsZero(64, value) THEN <<>>
    ELSE encode_tag(field_number, Varint) \o encode_varint(value)

encode_sint32(field_number, value) ==
    IF IsZero(32, value) THEN <<>>
    ELSE encode_tag(field_number, Varint) \o encode_zigzag(I32AsU64(value))

encode_sint64(field_number, value) ==
    IF IsZero(64, value) THEN <<>>
    ELSE encode_tag(field_number, Varint) \o encode_zigzag(value)

encode_bool(field_number, value) ==
    IF ~value THEN <<>>
    ELSE encode_tag(field_number, Varint) \o <<1>>

\* value: the UTF-8 bytes of the &str
encode_string(field_number, value) ==
    IF Len(value) = 0 THEN <<>>
    ELSE encode_tag(field_number, LengthDelimited)
         \o encode_varint(FromNat(64, Len(value))) \o value

encode_bytes(field_number, value) ==
    IF Len(value) = 0 THEN <<>>
    ELSE encode_tag(field_number, LengthDelimited)
         \o encode_varint(FromNat(64, Len(value))) \o value

\* value: the IEEE-754 bit pattern of the f32; value == 0.0 holds of +0.0 and -0.0
encode_float(field_number, value) ==
    IF \A i \in 0..30 : value[i] = 0 THEN <<>>
    ELSE encode_tag(field_number, Fixed32) \o to_le_bytes(32, value)

\* value: the IEEE-754 bit pattern of the f64
encode_double(field_number, value) ==
    IF \A i \in 0..62 : value[i] = 0 THEN <<>>
    ELSE encode_tag(field_number, Fixed64) \o to_le_bytes(64, value)

encode_fixed32(field_number, value) ==
    IF IsZero(32, value) THEN <<>>
    ELSE encode_tag(field_number, Fixed32) \o to_le_bytes(32, value)

encode_fixed64(field_number, value) ==
    IF IsZero(64, value) THEN <<>>
    ELSE encode_tag(field_number, Fixed64) \o to_le_bytes(64, value)

encode_sfixed32(field_number, value) ==
    IF IsZero(32, value) THEN <<>>
    ELSE encode_tag(field_number, Fixed32) \o to_le_bytes(32, value)

encode_sfixed64(field_number, value) ==
    IF IsZero(64, value) THEN <<>>
    ELSE encode_tag(field_number, Fixed64) \o to_le_bytes(64, value)

\* value: the i32 that value.into() yields
encode_enum(field_number, value) == encode_int32(field_number, value)

\* value <= 2^k - 1: no bit at or above position k is set
Below(value, k) == \A i \in k..63 : value[i] = 0

\* size_of_varint with the nine-byte range ending at 2^62 - 1
size_of_varint_short9(value) ==
    IF Below(value, 7) THEN 1
    ELSE IF Below(value, 14) THEN 2
    ELSE IF Below(value, 21) THEN 3
    ELSE IF Below(value, 28) THEN 4
    ELSE IF Below(value, 35) THEN 5
    ELSE IF Below(value, 42) THEN 6
    ELSE IF Below(value, 49) THEN 7
    ELSE IF Below(value, 56) THEN 8
    ELSE IF Below(value, 62) THEN 9
    ELSE 10

\* size_of_varint: the match on 0..=127, 128..=16383, ..., ..=9223372036854775807, _
size_of_varint(value) ==
    IF Below(value, 7) THEN 1
    ELSE IF Below(value, 14) THEN 2
    ELSE IF Below(value, 21) THEN 3
    ELSE IF Below(value, 28) THEN 4
    ELSE IF Below(value, 35) THEN 5
    ELSE IF Below(value, 42) THEN 6
    ELSE IF Below(value, 49) THEN 7
    ELSE IF Below(value, 56) THEN 8
    ELSE IF Below(value, 63) THEN 9
    ELSE 10

-----------------------------------------------------------------------------
(* decoder.rs: results.  pos is the cursor position the call leaves behind. *)

Ok(v, p) == [kind |-> "Ok", value |-> v, pos |-> p]
Some(v, p) == [kind |-> "Some", value |-> v, pos |-> p]
None(p) == [kind |-> "None", pos |-> p]
Err(e, p) == [kind |-> "Err", err |-> e, pos |-> p]
\* the call does not return: it panics
Panic(p) == [kind |-> "Panic", pos |-> p]

UnexpectedEof == <<"UnexpectedEof">>
InvalidVarint == <<"InvalidVarint">>
InvalidTag == <<"InvalidTag">>
InvalidWireType(code) == <<"InvalidWireType", code>>
UnexpectedWireType(expected, got) == <<"UnexpectedWireType", expected, got>>
\* IoError(e) for the only error an in-memory reader raises, ErrorKind::UnexpectedEof
IoError == <<"IoError", "UnexpectedEof">>
InvalidUtf8 == <<"InvalidUtf8">>

\* reader.read_exact(&mut [0u8; n]) on a Cursor: on a short read the cursor ends
\* at the end of the data
read_exact(source, p, n) ==
    IF n >= 0 /\ p + n <= Len(source)
    THEN Ok(SubSeq(source, p + 1, p + n), p + n)
    ELSE Err(IoError, Len(source))

RECURSIVE decode_varint_loop_gt70(_, _, _, _)
\* decode_varint testing `shift > 70`
decode_varint_loop_gt70(source, p, result, shift) ==
    IF p >= Len(source) THEN Err(UnexpectedEof, p)
    ELSE LET byte == source[p + 1]
             r == BitOr(64, result, Shl(64, ByteAsU64(byte % 128), shift))
         IN IF byte < 128 THEN Ok(r, p + 1)
            ELSE IF shift + 7 > 70 THEN Err(InvalidVarint, p + 1)
            ELSE decode_varint_loop_gt70(source, p + 1, r, shift + 7)

RECURSIVE decode_varint_loop_partial(_, _, _, _)
\* decode_varint returning what it has accumulated when the source runs out
decode_varint_loop_partial(source, p, result, shift) ==
    IF p >= Len(source) THEN Ok(result, p)
    ELSE LET byte == source[p + 1]
             r == BitOr(64, result, Shl(64, ByteAsU64(byte % 128), shift))
         IN IF byte < 128 THEN Ok(r, p + 1)
            ELSE IF shift + 7 > 63 THEN Err(InvalidVarint, p + 1)
            ELSE decode_varint_loop_partial(source, p + 1, r, shift + 7)

RECURSIVE decode_varint_loop_strict(_, _, _, _)
\* decode_varint refusing a tenth byte whose payload does not fit into bit 63
decode_varint_loop_strict(source, p, result, shift) ==
    IF p >= Len(source) THEN Err(UnexpectedEof, p)
    ELSE LET byte == source[p + 1]
             r == BitOr(64, result, Shl(64, ByteAsU64(byte % 128), shift))
         IN IF shift = 63 /\ byte % 128 > 1 THEN Err(InvalidVarint, p + 1)
            ELSE IF byte < 128 THEN Ok(r, p + 1)
            ELSE IF shift + 7 > 63 THEN Err(InvalidVarint, p + 1)
            ELSE decode_varint_loop_strict(source, p + 1, r, shift + 7)

RECURSIVE decode_varint_loop(_, _, _, _)
\* one iteration of the loop of decode_varint with the locals result and shift
decode_varint_loop(source, p, result, shift) ==
    IF p >= Len(source) THEN Err(UnexpectedEof, p)
    ELSE LET byte == source[p + 1]
             r == BitOr(64, result, Shl(64, ByteAsU64(byte % 128), shift))
         IN IF byte < 128 THEN Ok(r, p + 1)
            ELSE IF shift + 7 > 63 THEN Err(InvalidVarint, p + 1)
            ELSE decode_varint_loop(source, p + 1, r, shift + 7)

decode_varint(source, p) == decode_varint_loop(source, p, Zero(64), 0)

\* Tag::decode handing every error of decode_varint to its caller
Tag_decode_eof_error(source, p) ==
    LET r == decode_varint(source, p)
    IN IF r.kind = "Ok"
       THEN IF IsZero(64, r.value) THEN None(r.pos)
            ELSE LET field_number == Shr(64, r.value, 3)
                     wire_type_value == AsU8(r.value) % 8
                 IN IF IsZero(64, field_number) THEN Err(InvalidTag, r.pos)
                    ELSE IF wire_type_value \notin {Varint, Fixed64, LengthDelimited, Fixed32}
                    THEN Err(InvalidWireType(wire_type_value), r.pos)
                    ELSE IF \E i \in 32..63 : field_number[i] = 1 THEN Panic(r.pos)
                    ELSE Some([field_number |-> AsU32(field_number),
                               wire_type |-> wire_type_value], r.pos)
       ELSE r

\* Tag::decode
Tag_decode(source, p) ==
    LET r == decode_varint(source, p)
    IN IF r.kind = "Ok"
       THEN IF IsZero(64, r.value) THEN None(r.pos)
            ELSE LET field_number == Shr(64, r.value, 3)
                     wire_type_value == AsU8(r.value) % 8
                 IN IF IsZero(64, field_number) THEN Err(InvalidTag, r.pos)
                    ELSE IF wire_type_value \notin {Varint, Fixed64, LengthDelimited, Fixed32}
                    THEN Err(InvalidWireType(wire_type_value), r.pos)
                    \* field_number.try_into().unwrap(): u64 -> u32
                    ELSE IF \E i \in 32..63 : field_number[i] = 1 THEN Panic(r.pos)
                    ELSE Some([field_number |-> AsU32(field_number),
                               wire_type |-> wire_type_value], r.pos)
       ELSE IF r.err = UnexpectedEof THEN None(r.pos)
       ELSE r

decode_tag(source, p) == Tag_decode(source, p)

\* decode_zigzag without the negation: (value >> 1) ^ (value & 1)
decode_zigzag_no_negate(value) ==
    BitXor(64, Shr(64, value, 1), [i \in 0..63 |-> IF i = 0 THEN value[0] ELSE 0])

\* ((value >> 1) as i64) ^ (-((value & 1) as i64))
decode_zigzag(value) ==
    BitXor(64, Shr(64, value, 1), [i \in 0..63 |-> value[0]])

decode_uint32(source, p) ==
    LET r == decode_varint(source, p)
    IN IF r.kind = "Ok" THEN Ok(AsU32(r.value), r.pos) ELSE r

decode_int32(source, p) ==
    LET r == decode_varint(source, p)
    IN IF r.kind = "Ok" THEN Ok(AsU32(r.value), r.pos) ELSE r

decode_int64(source, p) == decode_varint(source, p)

decode_uint64(source, p) == decode_varint(source, p)

decode_sint32(source, p) ==
    LET r == decode_varint(source, p)
    IN IF r.kind = "Ok" THEN Ok(AsU32(decode_zigzag(r.value)), r.pos) ELSE r

decode_sint64(source, p) ==
    LET r == decode_varint(source, p)
    IN IF r.kind = "Ok" THEN Ok(decode_zigzag(r.value), r.pos) ELSE r

decode_bool(source, p) ==
    LET r == decode_varint(source, p)
    IN IF r.kind = "Ok" THEN Ok(~IsZero(64, r.value), r.pos) ELSE r

\* vec![0u8; length] panics with "capacity overflow" when length exceeds isize::MAX;
\* a shorter length the data cannot fill fails in read_exact
decode_bytes(source, p) ==
    LET r == decode_varint(source, p)
    IN IF r.kind # "Ok" THEN r
       ELSE IF r.value[63] = 1 THEN Panic(r.pos)
       ELSE read_exact(source, r.pos, SmallNat(r.value))

\* the length of the UTF-8 sequence a byte leads, 0 for a byte that leads none
Utf8Width(b) ==
    IF b < 128 THEN 1
    ELSE IF b \in 194..223 THEN 2
    ELSE IF b \in 224..239 THEN 3
    ELSE IF b \in 240..244 THEN 4
    ELSE 0

\* String::from_utf8 accepts bytes: every byte leads a well-formed sequence or is
\* a continuation byte of the sequence led by one of the three bytes before it
IsUtf8(bytes) ==
    LET n == Len(bytes)
        IsCont(k) == k >= 1 /\ k <= n /\ bytes[k] \in 128..191
        Second(i) ==
            LET b == bytes[i]
            IN IF b = 224 THEN 160..191
               ELSE IF b = 237 THEN 128..159
               ELSE IF b = 240 THEN 144..191
               ELSE IF b = 244 THEN 128..143
               ELSE 128..191
        Leads(i) ==
            LET w == Utf8Width(bytes[i])
            IN /\ w >= 1
               /\ i + w - 1 <= n
               /\ w >= 2 => bytes[i + 1] \in Second(i)
               /\ \A k \in (i + 2)..(i + w - 1) : IsCont(k)
        Covered(i) ==
            \E d \in 1..3 :
                /\ i - d >= 1
                /\ Utf8Width(bytes[i - d]) > d
                /\ \A k \in (i - d + 1)..(i - 1) : IsCont(k)
    IN \A i \in 1..n : IF bytes[i] \in 128..191 THEN Covered(i) ELSE Leads(i)

decode_string(source, p) ==
    LET r == decode_bytes(source, p)
    IN IF r.kind # "Ok" THEN r
       ELSE IF IsUtf8(r.value) THEN r
       ELSE Err(InvalidUtf8, r.pos)

decode_float(source, p) ==
    LET r == read_exact(source, p, 4)
    IN IF r.kind = "Ok" THEN Ok(from_le_bytes(32, r.value), r.pos) ELSE r

decode_double(source, p) ==
    LET r == read_exact(source, p, 8)
    IN IF r.kind = "Ok" THEN Ok(from_le_bytes(64, r.value), r.pos) ELSE r

decode_fixed32(source, p) ==
    LET r == read_exact(source, p, 4)
    IN IF r.kind = "Ok" THEN Ok(from_le_bytes(32, r.value), r.pos) ELSE r

decode_fixed64(source, p) ==
    LET r == read_exact(source, p, 8)
    IN IF r.kind = "Ok" THEN Ok(from_le_bytes(64, r.value), r.pos) ELSE r

decode_sfixed32(source, p) ==
    LET r == read_exact(source, p, 4)
    IN IF r.kind = "Ok" THEN Ok(from_le_bytes(32, r.value), r.pos) ELSE r

decode_sfixed64(source, p) ==
    LET r == read_exact(source, p, 8)
    IN IF r.kind = "Ok" THEN Ok(from_le_bytes(64, r.value), r.pos) ELSE r

\* decode_<kind>_field(field_number, reader) on a Cursor at p: Tag::decode, then the
\* field-number test, the wire-type test and the value decoder, `?` passing errors on
decode_uint32_field(field_number, source, p) ==
    LET tag == Tag_decode(source, p)
    IN IF tag.kind # "Some" THEN tag
       ELSE IF tag.value.field_number # field_number THEN None(tag.pos)
       ELSE IF tag.value.wire_type # Varint
       THEN Err(UnexpectedWireType(Varint, tag.value.wire_type), tag.pos)
       ELSE LET r == decode_uint32(source, tag.pos)
            IN IF r.kind = "Ok" THEN Some(r.value, r.pos) ELSE r

decode_int32_field(field_number, source, p) ==
    LET tag == Tag_decode(source, p)
    IN IF tag.kind # "Some" THEN tag
       ELSE IF tag.value.field_number # field_number THEN None(tag.pos)
       ELSE IF tag.value.wire_type # Varint
       THEN Err(UnexpectedWireType(Varint, tag.value.wire_type), tag.pos)
       ELSE LET r == decode_int32(source, tag.pos)
            IN IF r.kind = "Ok" THEN Some(r.value, r.pos) ELSE r

decode_int64_field(field_number, source, p) ==
    LET tag == Tag_decode(source, p)
    IN IF tag.kind # "Some" THEN tag
       ELSE IF tag.value.field_number # field_number THEN None(tag.pos)
       ELSE IF tag.value.wire_type # Varint
       THEN Err(UnexpectedWireType(Varint, tag.value.wire_type), tag.pos)
       ELSE LET r == decode_int64(source, tag.pos)
            IN IF r.kind = "Ok" THEN Some(r.value, r.pos) ELSE r

decode_uint64_field(field_number, source, p) ==
    LET tag == Tag_decode(source, p)
    IN IF tag.kind # "Some" THEN tag
       ELSE IF tag.value.field_number # field_number THEN None(tag.pos)
       ELSE IF tag.value.wire_type # Varint
       THEN Err(UnexpectedWireType(Varint, tag.value.wire_type), tag.pos)
       ELSE LET r == decode_uint64(source, tag.pos)
            IN IF r.kind = "Ok" THEN Some(r.value, r.pos) ELSE r

decode_sint32_field(field_number, source, p) ==
    LET tag == Tag_decode(source, p)
    IN IF tag.kind # "Some" THEN tag
       ELSE IF tag.value.field_number # field_number THEN None(tag.pos)
       ELSE IF tag.value.wire_type # Varint
       THEN Err(UnexpectedWireType(Varint, tag.value.wire_type), tag.pos)
       ELSE LET r == decode_sint32(source, tag.pos)
            IN IF r.kind = "Ok" THEN Some(r.value, r.pos) ELSE r

decode_sint64_field(field_number, source, p) ==
    LET tag == Tag_decode(source, p)
    IN IF tag.kind # "Some" THEN tag
       ELSE IF tag.value.field_number # field_number THEN None(tag.pos)
       ELSE IF tag.value.wire_type # Varint
       THEN Err(UnexpectedWireType(Varint, tag.value.wire_type), tag.pos)
       ELSE LET r == decode_sint64(source, tag.pos)
            IN IF r.kind = "Ok" THEN Some(r.value, r.pos) ELSE r

\* decode_bool_field without the wire-type test
decode_bool_field_any_wire(field_number, source, p) ==
    LET tag == Tag_decode(source, p)
    IN IF tag.kind # "Some" THEN tag
       ELSE IF tag.value.field_number # field_number THEN None(tag.pos)
       ELSE LET r == decode_bool(source, tag.pos)
            IN IF r.kind = "Ok" THEN Some(r.value, r.pos) ELSE r

decode_bool_field(field_number, source, p) ==
    LET tag == Tag_decode(source, p)
    IN IF tag.kind # "Some" THEN tag
       ELSE IF tag.value.field_number # field_number THEN None(tag.pos)
       ELSE IF tag.value.wire_type # Varint
       THEN Err(UnexpectedWireType(Varint, tag.value.wire_type), tag.pos)
       ELSE LET r == decode_bool(source, tag.pos)
            IN IF r.kind = "Ok" THEN Some(r.value, r.pos) ELSE r

decode_string_field(field_number, source, p) ==
    LET tag == Tag_decode(source, p)
    IN IF tag.kind # "Some" THEN tag
       ELSE IF tag.value.field_number # field_number THEN None(tag.pos)
       ELSE IF tag.value.wire_type # LengthDelimited
       THEN Err(UnexpectedWireType(LengthDelimited, tag.value.wire_type), tag.pos)
       ELSE LET r == decode_string(source, tag.pos)
            IN IF r.kind = "Ok" THEN Some(r.value, r.pos) ELSE r

decode_bytes_field(field_number, source, p) ==
    LET tag == Tag_decode(source, p)
    IN IF tag.kind # "Some" THEN tag
       ELSE IF tag.value.field_number # field_number THEN None(tag.pos)
       ELSE IF tag.value.wire_type # LengthDelimited
       THEN Err(UnexpectedWireType(LengthDelimited, tag.value.wire_type), tag.pos)
       ELSE LET r == decode_bytes(source, tag.pos)
            IN IF r.kind = "Ok" THEN Some(r.value, r.pos) ELSE r

decode_float_field(field_number, source, p) ==
    LET tag == Tag_decode(source, p)
    IN IF tag.kind # "Some" THEN tag
       ELSE IF tag.value.field_number # field_number THEN None(tag.pos)
       ELSE IF tag.value.wire_type # Fixed32
       THEN Err(UnexpectedWireType(Fixed32, tag.value.wire_type), tag.pos)
       ELSE LET r == decode_float(source, tag.pos)
            IN IF r.kind = "Ok" THEN Some(r.value, r.pos) ELSE r

decode_double_field(field_number, source, p) ==
    LET tag == Tag_decode(source, p)
    IN IF tag.kind # "Some" THEN tag
       ELSE IF tag.value.field_number # field_number THEN None(tag.pos)
       ELSE IF tag.value.wire_type # Fixed64
       THEN Err(UnexpectedWireType(Fixed64, tag.value.wire_type), tag.pos)
       ELSE LET r == decode_double(source, tag.pos)
            IN IF r.kind = "Ok" THEN Some(r.value, r.pos) ELSE r

decode_fixed32_field(field_number, source, p) ==
    LET tag == Tag_decode(source, p)
    IN IF tag.kind # "Some" THEN tag
       ELSE IF tag.value.field_number # field_number THEN None(tag.pos)
       ELSE IF tag.value.wire_type # Fixed32
       THEN Err(UnexpectedWireType(Fixed32, tag.value.wire_type), tag.pos)
       ELSE LET r == decode_fixed32(source, tag.pos)
            IN IF r.kind = "Ok" THEN Some(r.value, r.pos) ELSE r

decode_fixed64_field(field_number, source, p) ==
    LET tag == Tag_decode(source, p)
    IN IF tag.kind # "Some" THEN tag
       ELSE IF tag.value.field_number # field_number THEN None(tag.pos)
       ELSE IF tag.value.wire_type # Fixed64
       THEN Err(UnexpectedWireType(Fixed64, tag.value.wire_type), tag.pos)
       ELSE LET r == decode_fixed64(source, tag.pos)
            IN IF r.kind = "Ok" THEN Some(r.value, r.pos) ELSE r

decode_sfixed32_field(field_number, source, p) ==
    LET tag == Tag_decode(source, p)
    IN IF tag.kind # "Some" THEN tag
       ELSE IF tag.value.field_number # field_number THEN None(tag.pos)
       ELSE IF tag.value.wire_type # Fixed32
       THEN Err(UnexpectedWireType(Fixed32, tag.value.wire_type), tag.pos)
       ELSE LET r == decode_sfixed32(source, tag.pos)
            IN IF r.kind = "Ok" THEN Some(r.value, r.pos) ELSE r

decode_sfixed64_field(field_number, source, p) ==
    LET tag == Tag_decode(source, p)
    IN IF tag.kind # "Some" THEN tag
       ELSE IF tag.value.field_number # field_number THEN None(tag.pos)
       ELSE IF tag.value.wire_type # Fixed64
       THEN Err(UnexpectedWireType(Fixed64, tag.value.wire_type), tag.pos)
       ELSE LET r == decode_sfixed64(source, tag.pos)
            IN IF r.kind = "Ok" THEN Some(r.value, r.pos) ELSE r

-----------------------------------------------------------------------------
(* The scalar kinds and the functions of each *)

VarintKinds == {"uint32", "int32", "int64", "uint64", "sint32", "sint64", "bool", "enum"}
Kinds32 == {"uint32", "int32", "sint32", "fixed32", "sfixed32", "float", "enum"}
Kinds64 == {"int64", "uint64", "sint64", "fixed64", "sfixed64", "double"}
ScalarKinds == Kinds32 \cup Kinds64 \cup {"bool", "string", "bytes"}

\* encode_<kind>(field_number, value, writer) on a Vec<u8>: the bytes appended
Encode(kind, field_number, value) ==
    CASE kind = "uint32" -> encode_uint32(field_number, value)
      [] kind = "int32" -> encode_int32(field_number, value)
      [] kind = "int64" -> encode_int64(field_number, value)
      [] kind = "uint64" -> encode_uint64(field_number, value)
      [] kind = "sint32" -> encode_sint32(field_number, value)
      [] kind = "sint64" -> encode_sint64(field_number, value)
      [] kind = "bool" -> encode_bool(field_number, value)
      [] kind = "string" -> encode_string(field_number, value)
      [] kind = "bytes" -> encode_bytes(field_number, value)
      [] kind = "float" -> encode_float(field_number, value)
      [] kind = "double" -> encode_double(field_number, value)
      [] kind = "fixed32" -> encode_fixed32(field_number, value)
      [] kind = "fixed64" -> encode_fixed64(field_number, value)
      [] kind = "sfixed32" -> encode_sfixed32(field_number, value)
      [] kind = "sfixed64" -> encode_sfixed64(field_number, value)
      [] kind = "enum" -> encode_enum(field_number, value)

\* decode_<kind>_field(field_number, reader) on a Cursor at p
DecodeField(kind, field_number, source, p) ==
    CASE kind = "uint32" -> decode_uint32_field(field_number, source, p)
      [] kind = "int32" -> decode_int32_field(field_number, source, p)
      [] kind = "int64" -> decode_int64_field(field_number, source, p)
      [] kind = "uint64" -> decode_uint64_field(field_number, source, p)
      [] kind = "sint32" -> decode_sint32_field(field_number, source, p)
      [] kind = "sint64" -> decode_sint64_field(field_number, source, p)
      [] kind = "bool" -> decode_bool_field(field_number, source, p)
      [] kind = "string" -> decode_string_field(field_number, source, p)
      [] kind = "bytes" -> decode_bytes_field(field_number, source, p)
      [] kind = "float" -> decode_float_field(field_number, source, p)
      [] kind = "double" -> decode_double_field(field_number, source, p)
      [] kind = "fixed32" -> decode_fixed32_field(field_number, source, p)
      [] kind = "fixed64" -> decode_fixed64_field(field_number, source, p)
      [] kind = "sfixed32" -> decode_sfixed32_field(field_number, source, p)
      [] kind = "sfixed64" -> decode_sfixed64_field(field_number, source, p)

\* the kinds that have a decode_<kind>_field(field_number, reader) of two arguments
FieldKinds == ScalarKinds \ {"enum"}

-----------------------------------------------------------------------------
(* The inputs the exploration draws from *)

\* bit positions around the 7-bit group, 32-bit and 64-bit boundaries
Edges == {0, 1, 7, 14, 28, 31, 32, 35, 56, 62, 63}

\* 2^k - 1
LowOnes(w, k) == [i \in 0..(w - 1) |-> IF i < k THEN 1 ELSE 0]
\* 2^k
OneAt(w, k) == [i \in 0..(w - 1) |-> IF i = k THEN 1 ELSE 0]
\* -(2^k) as a signed integer
HighOnes(w, k) == [i \in 0..(w - 1) |-> IF i >= k THEN 1 ELSE 0]

Samples(w) ==
    LET E == {k \in Edges : k < w}
    IN {LowOnes(w, k) : k \in E \cup {w}} \cup {OneAt(w, k) : k \in E}
       \cup {HighOnes(w, k) : k \in E}

ByteAlphabet == {0, 107, 111, 128, 255}

RECURSIVE SeqsUpTo(_, _)
\* the sequences over S of length at most n
SeqsUpTo(S, n) ==
    IF n = 0 THEN {<<>>}
    ELSE LET shorter == SeqsUpTo(S, n - 1)
         IN shorter \cup {Append(q, x) : q \in {t \in shorter : Len(t) = n - 1}, x \in S}

\* a payload whose length needs a two-byte length varint
LongBytes == [i \in 1..130 |-> 111]

BytesSamples == SeqsUpTo(ByteAlphabet, MaxLen) \cup {LongBytes}

\* a &str holds valid UTF-8
StringSamples == {b \in BytesSamples : IsUtf8(b)}

ValueSamples(kind) ==
    IF kind \in Kinds32 THEN Samples(32)
    ELSE IF kind \in Kinds64 THEN Samples(64)
    ELSE IF kind = "bool" THEN BOOLEAN
    ELSE IF kind = "string" THEN StringSamples
    ELSE BytesSamples

\* field numbers at the tag-length boundaries of the valid range 1..2^29-1
FieldSamples == {1, 15, 16, 2048, 536870911}
\* and u32 values outside it
AnyFieldSamples == FieldSamples \cup {0, 536870912}

WireTypes == {Varint, Fixed64, LengthDelimited, StartGroup, EndGroup, Fixed32}

\* byte sources that are no encoder's output: k continuation-flagged bytes c, then tail
RawSources ==
    {[i \in 1..k |-> c] \o tail :
        k \in 0..MaxCont, c \in {128, 255}, tail \in {<<>>, <<0>>, <<1>>, <<127>>}}

-----------------------------------------------------------------------------
(* The codec as a machine: a caller writes one encoding into a fresh Vec<u8>, *)
(* or is handed foreign bytes, and reads it back through a Cursor.           *)

NoCall == [op |-> "none"]

\* a fresh Vec<u8> for the codec calls and ProtobufBuilder::new()
Init ==
    /\ wire = <<>>
    /\ pos = 0
    /\ src = [op |-> "new"]
    /\ call = NoCall
    /\ ret = NoCall
    /\ buffer = <<>>
    /\ field_numbers = {}
    /\ phase = "Open"
    /\ calls = <<>>
    /\ passed = {}
    /\ last = NoCall
    /\ built = <<>>

\* encode_<kind>(n, v, &mut buffer) on the fresh, still empty buffer
EncodeScalar ==
    \E kind \in ScalarKinds, n \in AnyFieldSamples :
        \E v \in ValueSamples(kind) :
            /\ src.op = "new"
            /\ wire' = Encode(kind, FromNat(32, n), v)
            /\ pos' = 0
            /\ src' = [op |-> "encode", kind |-> kind, n |-> n, v |-> v]
            /\ call' = [op |-> "encode", kind |-> kind, n |-> n, v |-> v]
            /\ ret' = [kind |-> "Ok"]
            /\ UNCHANGED builderVars

\* encode_varint(v, &mut buffer) on the fresh buffer
EncodeVarint ==
    \E v \in Samples(64) :
        /\ src.op = "new"
        /\ wire' = encode_varint(v)
        /\ pos' = 0
        /\ src' = [op |-> "encode_varint", v |-> v]
        /\ call' = [op |-> "encode_varint", v |-> v]
        /\ ret' = [kind |-> "Ok"]
        /\ UNCHANGED builderVars

\* encode_zigzag(v, &mut buffer) on the fresh buffer
EncodeZigzag ==
    \E v \in Samples(64) :
        /\ src.op = "new"
        /\ wire' = encode_zigzag(v)
        /\ pos' = 0
        /\ src' = [op |-> "encode_zigzag", v |-> v]
        /\ call' = [op |-> "encode_zigzag", v |-> v]
        /\ ret' = [kind |-> "Ok"]
        /\ UNCHANGED builderVars

\* encode_tag(n, wt, &mut buffer) on the fresh buffer
EncodeTag ==
    \E n \in AnyFieldSamples, wt \in WireTypes :
        /\ src.op = "new"
        /\ wire' = encode_tag(FromNat(32, n), wt)
        /\ pos' = 0
        /\ src' = [op |-> "encode_tag", n |-> n, wt |-> wt]
        /\ call' = [op |-> "encode_tag", n |-> n, wt |-> wt]
        /\ ret' = [kind |-> "Ok"]
        /\ UNCHANGED builderVars

\* the caller is handed bytes that no encoder of this crate wrote
LoadRaw ==
    \E bytes \in RawSources :
        /\ src.op = "new"
        /\ wire' = bytes
        /\ pos' = 0
        /\ src' = [op |-> "raw"]
        /\ call' = [op |-> "raw"]
        /\ ret' = [kind |-> "Ok"]
        /\ UNCHANGED builderVars

\* the caller reads the bytes it holds back with one call on a new Cursor
CanRead == call.op \in {"encode", "encode_varint", "encode_zigzag", "encode_tag", "raw"}

\* decode_varint(&mut cursor)
DecodeVarint ==
    LET r == decode_varint(wire, pos)
    IN /\ CanRead
       /\ call' = [op |-> "decode_varint", at |-> pos]
       /\ ret' = r
       /\ pos' = r.pos
       /\ UNCHANGED <<wire, src>>
       /\ UNCHANGED builderVars

\* decode_tag(&mut cursor)
DecodeTag ==
    LET r == decode_tag(wire, pos)
    IN /\ CanRead
       /\ call' = [op |-> "decode_tag", at |-> pos]
       /\ ret' = r
       /\ pos' = r.pos
       /\ UNCHANGED <<wire, src>>
       /\ UNCHANGED builderVars

\* decode_<kind>_field(n, &mut cursor): the caller asks for the field it wrote or for
\* field 1, as the kind it wrote or as a kind of another wire type
DecodeScalarField ==
    \E kind \in FieldKinds, n \in AnyFieldSamples :
        /\ CanRead
        /\ src.op = "encode" =>
              /\ kind \in {IF src.kind = "enum" THEN "int32" ELSE src.kind,
                           IF src.kind \in VarintKinds THEN "string" ELSE "uint32"}
              /\ n \in {src.n, 1}
        /\ src.op # "encode" => (kind \in {"uint32", "bytes"} /\ n \in {1, 15})
        /\ LET r == DecodeField(kind, FromNat(32, n), wire, pos)
           IN /\ call' = [op |-> "decode_field", kind |-> kind, n |-> n, at |-> pos]
              /\ ret' = r
              /\ pos' = r.pos
              /\ UNCHANGED <<wire, src>>
              /\ UNCHANGED builderVars

NextCodec ==
    \/ EncodeScalar
    \/ EncodeVarint
    \/ EncodeZigzag
    \/ EncodeTag
    \/ LoadRaw
    \/ DecodeVarint
    \/ DecodeTag
    \/ DecodeScalarField

SpecCodec == Init /\ [][NextCodec]_vars

-----------------------------------------------------------------------------
(* builder.rs: ProtobufBuilder.  A builder value b is [buffer, field_numbers]. *)

\* check_field ignoring what insert returns
check_field_silent(set, field_number) ==
    [panic |-> FALSE, set |-> set \cup {field_number}]

\* check_field: HashSet::insert, and a panic when the number was there already
check_field(set, field_number) ==
    [panic |-> field_number \in set, set |-> set \cup {field_number}]

\* add_<kind>(field_number, value): check_field, then encode_<kind> into the buffer
add_scalar(b, kind, field_number, value) ==
    LET chk == check_field(b.field_numbers, field_number)
    IN IF chk.panic
       THEN [buffer |-> b.buffer, field_numbers |-> chk.set, panicked |-> TRUE]
       ELSE [buffer |-> b.buffer \o Encode(kind, FromNat(32, field_number), value),
             field_numbers |-> chk.set,
             panicked |-> FALSE]

\* build returning the buffer as it is after the take
build_cleared(b) == [result |-> <<>>, buffer |-> <<>>, field_numbers |-> {}]

\* build: mem::take of the buffer, which is returned, and of the set, which is dropped
build(b) == [result |-> b.buffer, buffer |-> <<>>, field_numbers |-> {}]

\* the field numbers of the messages built
BuilderFields == {1, 2, 3}

\* the message types built: each gives every field number the kinds it may hold
Schemas ==
    {[n \in BuilderFields |->
         IF n = 1 THEN {"string", "bytes"}
         ELSE IF n = 2 THEN {"uint32", "int32"}
         ELSE {"bool", "enum"}],
     [n \in BuilderFields |->
         IF n = 1 THEN {"float", "double"}
         ELSE IF n = 2 THEN {"int64", "uint64"}
         ELSE {"sfixed32", "sfixed64"}],
     [n \in BuilderFields |->
         IF n = 1 THEN {"fixed32", "fixed64"}
         ELSE IF n = 2 THEN {"sint32", "sint64"}
         ELSE {"bool"}]}

\* per kind, the default value and one other
BuilderValues(kind) ==
    IF kind \in Kinds32 THEN {Zero(32), FromNat(32, 300)}
    ELSE IF kind \in Kinds64 THEN {Zero(64), HighOnes(64, 1)}
    ELSE IF kind = "bool" THEN BOOLEAN
    ELSE IF kind = "string" THEN {<<>>, <<111, 107>>}
    ELSE {<<>>, <<0, 255>>}

\* an add_<kind>(n, v) call on the builder, the message under construction being of
\* one of the message types; a panic ends the program
Add ==
    \E n \in BuilderFields, kind \in ScalarKinds :
        /\ phase # "Aborted"
        /\ \E schema \in Schemas :
              /\ kind \in schema[n]
              /\ \A i \in 1..Len(calls) : calls[i].kind \in schema[calls[i].n]
        /\ \E v \in BuilderValues(kind) :
              LET b == add_scalar([buffer |-> buffer, field_numbers |-> field_numbers],
                                  kind, n, v)
              IN /\ buffer' = b.buffer
                 /\ field_numbers' = b.field_numbers
                 /\ phase' = IF b.panicked THEN "Aborted" ELSE phase
                 /\ calls' = IF b.panicked THEN calls
                             ELSE Append(calls, [kind |-> kind, n |-> n, v |-> v])
                 /\ passed' = passed \cup {n}
                 /\ last' = [op |-> "add", n |-> n]
                 /\ built' = <<>>
                 /\ UNCHANGED codecVars

\* a build() call on the builder
Build ==
    LET b == build([buffer |-> buffer, field_numbers |-> field_numbers])
    IN /\ phase # "Aborted"
       /\ built' = b.result
       /\ buffer' = b.buffer
       /\ field_numbers' = b.field_numbers
       /\ phase' = "Built"
       /\ last' = [op |-> "build", from |-> calls]
       /\ calls' = <<>>
       /\ UNCHANGED passed
       /\ UNCHANGED codecVars

NextBuilder ==
    \/ Add
    \/ Build

SpecBuilder == Init /\ [][NextBuilder]_vars

-----------------------------------------------------------------------------
(* A hand-written message decoder: the scalar fields 1, 2, 3 of one message  *)
(* are written in ascending order and read back one decode_*_field call per  *)
(* known field, in ascending order, through one Cursor.                      *)

RECURSIVE encode_to_writer(_)
\* Protobuf::encode_to_writer of a message: encode_<kind>(n, v, writer) per field
encode_to_writer(fields) ==
    IF fields = <<>> THEN <<>>
    ELSE LET f == Head(fields)
         IN Encode(f.kind, FromNat(32, f.n), f.v) \o encode_to_writer(Tail(fields))

\* the decode_*_field function that reads a field of the kind (an enum is read as i32)
FieldDecoderOf(kind) == IF kind = "enum" THEN "int32" ELSE kind

\* the message is written into the fresh buffer
WriteMessage ==
    \E schema \in Schemas :
        \E k1 \in schema[1], k2 \in schema[2], k3 \in schema[3] :
            \E v1 \in BuilderValues(k1), v2 \in BuilderValues(k2), v3 \in BuilderValues(k3) :
                LET fields == <<[kind |-> k1, n |-> 1, v |-> v1],
                                [kind |-> k2, n |-> 2, v |-> v2],
                                [kind |-> k3, n |-> 3, v |-> v3]>>
                IN /\ src.op = "new"
                   /\ wire' = encode_to_writer(fields)
                   /\ pos' = 0
                   /\ src' = [op |-> "message", fields |-> fields]
                   /\ call' = [op |-> "message"]
                   /\ ret' = [kind |-> "Ok"]
                   /\ UNCHANGED builderVars

\* the next decode_<kind>_field(i, &mut cursor)? of the message's decoder
DecodeNextField ==
    /\ src.op = "message"
    /\ \/ call.op = "message"
       \/ call.op = "decode_seq" /\ call.i < Len(src.fields) /\ ret.kind \in {"Some", "None"}
    /\ LET i == IF call.op = "message" THEN 1 ELSE call.i + 1
           r == DecodeField(FieldDecoderOf(src.fields[i].kind), FromNat(32, i), wire, pos)
       IN /\ call' = [op |-> "decode_seq", i |-> i, at |-> pos]
          /\ ret' = r
          /\ pos' = r.pos
          /\ UNCHANGED <<wire, src>>
          /\ UNCHANGED builderVars

NextSequential ==
    \/ WriteMessage
    \/ DecodeNextField

SpecSequential == Init /\ [][NextSequential]_vars

-----------------------------------------------------------------------------
(* A reader that takes a field for another kind: the field that one          *)
(* encode_<kind> call wrote is read back by any decode_*_field function.     *)

\* decode_<kind>_field(n, &mut cursor) for the field number just written, as any kind
DecodeFieldAs ==
    \E kind \in FieldKinds :
        /\ call.op = "encode"
        /\ src.n = 16
        /\ LET r == DecodeField(kind, FromNat(32, src.n), wire, pos)
           IN /\ call' = [op |-> "decode_field", kind |-> kind, n |-> src.n, at |-> pos]
              /\ ret' = r
              /\ pos' = r.pos
              /\ UNCHANGED <<wire, src>>
              /\ UNCHANGED builderVars

NextMismatch ==
    \/ EncodeScalar
    \/ DecodeFieldAs

SpecMismatch == Init /\ [][NextMismatch]_vars

-----------------------------------------------------------------------------
(* Map fields: encode_map, decode_map and decode_map_field.  A map handed to *)
(* the encoder is the sequence of its pairs in the order the HashMap         *)
(* iterates them; a decoded HashMap is a set of [key, value] records.        *)

\* let-binding of a computed value: the element of a one-element set.  In
\* Bound({e : x \in {v}}) the value v is computed once, as the `let x = v;` of the
\* code computes it, however often e reads x
Bound(S) == CHOOSE x \in S : TRUE

MalformedInput(message) == <<"MalformedInput", message>>

\* decode_<kind>(reader) on a Cursor at p: the untagged decoder of a kind
DecodeValue(kind, source, p) ==
    CASE kind = "uint32" -> decode_uint32(source, p)
      [] kind = "int32" -> decode_int32(source, p)
      [] kind = "int64" -> decode_int64(source, p)
      [] kind = "uint64" -> decode_uint64(source, p)
      [] kind = "sint32" -> decode_sint32(source, p)
      [] kind = "sint64" -> decode_sint64(source, p)
      [] kind = "bool" -> decode_bool(source, p)
      [] kind = "string" -> decode_string(source, p)
      [] kind = "bytes" -> decode_bytes(source, p)
      [] kind = "float" -> decode_float(source, p)
      [] kind = "double" -> decode_double(source, p)
      [] kind = "fixed32" -> decode_fixed32(source, p)
      [] kind = "fixed64" -> decode_fixed64(source, p)
      [] kind = "sfixed32" -> decode_sfixed32(source, p)
      [] kind = "sfixed64" -> decode_sfixed64(source, p)

\* HashMap::insert
insert(map, key, value) ==
    {e \in map : e.key # key} \cup {[key |-> key, value |-> value]}

RECURSIVE encode_map(_, _, _, _)
\* encode_map(field_number, map, writer, encode_<key_kind>, encode_<value_kind>)
encode_map(field_number, map, key_kind, value_kind) ==
    IF map = <<>> THEN <<>>
    ELSE LET entry_buf == Encode(key_kind, FromNat(32, 1), Head(map).key)
                          \o Encode(value_kind, FromNat(32, 2), Head(map).value)
         IN encode_tag(field_number, LengthDelimited)
            \o encode_varint(FromNat(64, Len(entry_buf)))
            \o entry_buf
            \o encode_map(field_number, Tail(map), key_kind, value_kind)

\* the part of decode_map and decode_map_field that reads one entry from its buffer
\* with decode_<key_kind> and decode_<value_kind>: Ok([key, value]) or the error
decode_map_entry(entry_buffer, key_kind, value_kind) ==
    Bound({
      IF key_tag.kind \in {"Err", "Panic"} THEN key_tag
      ELSE IF key_tag.kind = "None"
      THEN Err(MalformedInput("Missing key in map entry"), key_tag.pos)
      ELSE IF key_tag.value.field_number # FromNat(32, 1)
      THEN Err(MalformedInput("Expected field number 1 for key in map entry"), key_tag.pos)
      ELSE Bound({
        IF key.kind # "Ok" THEN key
        ELSE Bound({
          IF value_tag.kind \in {"Err", "Panic"} THEN value_tag
          ELSE IF value_tag.kind = "None"
          THEN Err(MalformedInput("Missing value in map entry"), value_tag.pos)
          ELSE IF value_tag.value.field_number # FromNat(32, 2)
          THEN Err(MalformedInput("Expected field number 2 for value in map entry"),
                   value_tag.pos)
          ELSE Bound({
            IF value.kind # "Ok" THEN value
            ELSE Ok([key |-> key.value, value |-> value.value], value.pos) :
            value \in {DecodeValue(value_kind, entry_buffer, value_tag.pos)}}) :
          value_tag \in {Tag_decode(entry_buffer, key.pos)}}) :
        key \in {DecodeValue(key_kind, entry_buffer, key_tag.pos)}}) :
      key_tag \in {Tag_decode(entry_buffer, 0)}})

RECURSIVE decode_map_loop(_, _, _, _, _)
\* the loop of decode_map, the reader at p and the entries so far in map
decode_map_loop(source, p, map, key_kind, value_kind) ==
    Bound({
      IF tag.kind \in {"Err", "Panic"} THEN tag
      ELSE IF tag.kind = "None" THEN Ok(map, tag.pos)
      ELSE IF tag.value.wire_type # LengthDelimited
      THEN Err(UnexpectedWireType(LengthDelimited, tag.value.wire_type), tag.pos)
      ELSE Bound({
        IF entry_buffer.kind # "Ok" THEN entry_buffer
        ELSE Bound({
          IF entry.kind = "Panic" THEN Panic(entry_buffer.pos)
          ELSE IF entry.kind = "Err" THEN Err(entry.err, entry_buffer.pos)
          ELSE decode_map_loop(source, entry_buffer.pos,
                               insert(map, entry.value.key, entry.value.value),
                               key_kind, value_kind) :
          entry \in {decode_map_entry(entry_buffer.value, key_kind, value_kind)}}) :
        entry_buffer \in {decode_bytes(source, tag.pos)}}) :
      tag \in {Tag_decode(source, p)}})

\* decode_map(reader, decode_<key_kind>, decode_<value_kind>)
decode_map(source, p, key_kind, value_kind) ==
    decode_map_loop(source, p, {}, key_kind, value_kind)

RECURSIVE decode_map_field_loop(_, _, _, _, _, _)
\* the loop of decode_map_field; start_pos is reader.seek(SeekFrom::Current(0))
decode_map_field_loop(field_number, source, p, map, key_kind, value_kind) ==
    Bound({
      IF tag.kind \in {"Err", "Panic"} THEN tag
      ELSE IF tag.kind = "None" THEN Ok(map, tag.pos)
      ELSE IF tag.value.field_number # field_number
      THEN Ok(map, IF start_pos > 0 THEN start_pos ELSE tag.pos)
      ELSE IF tag.value.wire_type # LengthDelimited
      THEN Err(UnexpectedWireType(LengthDelimited, tag.value.wire_type), tag.pos)
      ELSE Bound({
        IF entry_buffer.kind # "Ok" THEN entry_buffer
        ELSE Bound({
          IF entry.kind = "Panic" THEN Panic(entry_buffer.pos)
          ELSE IF entry.kind = "Err" THEN Err(entry.err, entry_buffer.pos)
          ELSE decode_map_field_loop(field_number, source, entry_buffer.pos,
                                     insert(map, entry.value.key, entry.value.value),
                                     key_kind, value_kind) :
          entry \in {decode_map_entry(entry_buffer.value, key_kind, value_kind)}}) :
        entry_buffer \in {decode_bytes(source, tag.pos)}}) :
      start_pos \in {p}, tag \in {Tag_decode(source, p)}})

\* decode_map_field(field_number, reader, decode_<key_kind>, decode_<value_kind>)
decode_map_field(field_number, source, p, key_kind, value_kind) ==
    decode_map_field_loop(field_number, source, p, {}, key_kind, value_kind)

\* the map types written and read: the kinds of the key and of the value
MapTypes == {<<"string", "uint32">>, <<"uint32", "string">>}

\* keys and values of a kind, the default among them
MapValues(kind) ==
    IF kind = "string" THEN {<<>>, <<107>>, <<16, 5>>}
    ELSE {Zero(32), FromNat(32, 2), FromNat(32, 300)}

\* the maps of at most two pairs, each in every order a HashMap may iterate it
MapSamples(key_kind, value_kind) ==
    LET pairs == {[key |-> k, value |-> v] :
                     k \in MapValues(key_kind), v \in MapValues(value_kind)}
    IN {<<>>} \cup {<<e>> : e \in pairs}
       \cup {m \in {<<e1, e2>> : e1 \in pairs, e2 \in pairs} : m[1].key # m[2].key}

\* the field number of the map field, between a uint32 field 1 and a uint32 field 3
MapField == 2

\* the sub-fields an entry is assembled from: nothing, or a key or a value of the
\* map type written under field number 1, 2 or 3
SubFields(key_kind, value_kind) ==
    {[role |-> "none", n |-> 0, bytes |-> <<>>]}
    \cup {[role |-> "key", n |-> n, bytes |-> Encode(key_kind, FromNat(32, n), k)] :
             n \in 1..3, k \in MapValues(key_kind)}
    \cup {[role |-> "value", n |-> n, bytes |-> Encode(value_kind, FromNat(32, n), v)] :
             n \in 1..3, v \in MapValues(value_kind)}

\* a message is written: an optional uint32 field 1, the map as field 2 with
\* encode_map, an optional uint32 field 3
WriteMapMessage ==
    \E type \in MapTypes :
        \E map \in MapSamples(type[1], type[2]),
           lead \in {<<>>, encode_uint32(FromNat(32, 1), FromNat(32, 300))},
           trail \in {<<>>, encode_uint32(FromNat(32, 3), FromNat(32, 300))} :
            LET entries == encode_map(FromNat(32, MapField), map, type[1], type[2])
            IN /\ src.op = "new"
               /\ wire' = lead \o entries \o trail
               /\ pos' = 0
               /\ src' = [op |-> "map_message", key_kind |-> type[1], value_kind |-> type[2],
                          map |-> map, lead |-> lead, entries |-> entries, trail |-> trail]
               /\ call' = [op |-> "map_message"]
               /\ ret' = [kind |-> "Ok"]
               /\ UNCHANGED builderVars

\* the caller is handed a map field of one entry that encode_map need not have
\* written: any two sub-fields in the entry's payload
LoadMapEntry ==
    \E type \in MapTypes :
        \E first \in SubFields(type[1], type[2]), second \in SubFields(type[1], type[2]) :
            LET payload == first.bytes \o second.bytes
            IN /\ src.op = "new"
               /\ wire' = encode_tag(FromNat(32, MapField), LengthDelimited)
                          \o encode_varint(FromNat(64, Len(payload))) \o payload
               /\ pos' = 0
               /\ src' = [op |-> "map_entry", key_kind |-> type[1], value_kind |-> type[2],
                          first |-> first, second |-> second, payload |-> payload]
               /\ call' = [op |-> "map_entry"]
               /\ ret' = [kind |-> "Ok"]
               /\ UNCHANGED builderVars

\* decode_uint32_field(1, &mut cursor) before the map is read
DecodeLeadField ==
    LET r == decode_uint32_field(FromNat(32, 1), wire, pos)
    IN /\ call.op = "map_message"
       /\ src.lead # <<>>
       /\ call' = [op |-> "decode_lead", at |-> pos]
       /\ ret' = r
       /\ pos' = r.pos
       /\ UNCHANGED <<wire, src>>
       /\ UNCHANGED builderVars

\* decode_map(&mut cursor, decode_<key kind>, decode_<value kind>)
DecodeMap ==
    LET r == decode_map(wire, pos, src.key_kind, src.value_kind)
    IN /\ call.op \in {"map_message", "map_entry", "decode_lead"}
       /\ call' = [op |-> "decode_map", at |-> pos]
       /\ ret' = r
       /\ pos' = r.pos
       /\ UNCHANGED <<wire, src>>
       /\ UNCHANGED builderVars

\* decode_map_field(2, &mut cursor, decode_<key kind>, decode_<value kind>)
DecodeMapField ==
    LET r == decode_map_field(FromNat(32, MapField), wire, pos, src.key_kind, src.value_kind)
    IN /\ call.op \in {"map_message", "map_entry", "decode_lead"}
       /\ call' = [op |-> "decode_map_field", at |-> pos]
       /\ ret' = r
       /\ pos' = r.pos
       /\ UNCHANGED <<wire, src>>
       /\ UNCHANGED builderVars

\* decode_uint32_field(3, &mut cursor), the next decode call after decode_map_field
DecodeTrailField ==
    LET r == decode_uint32_field(FromNat(32, 3), wire, pos)
    IN /\ call.op = "decode_map_field"
       /\ src.op = "map_message"
       /\ ret.kind = "Ok"
       /\ call' = [op |-> "decode_trail", at |-> pos, after |-> call.at]
       /\ ret' = r
       /\ pos' = r.pos
       /\ UNCHANGED <<wire, src>>
       /\ UNCHANGED builderVars

NextMap ==
    \/ WriteMapMessage
    \/ LoadMapEntry
    \/ DecodeLeadField
    \/ DecodeMap
    \/ DecodeMapField
    \/ DecodeTrailField

SpecMap == Init /\ [][NextMap]_vars

-----------------------------------------------------------------------------
(* Embedded messages: decode_message over a message type M with the uint32   *)
(* fields a = 1 and b = 2, whose decode_from_reader reads them in order.     *)

\* M::decode_from_reader on a Cursor at p: decode_uint32_field(1)?, then
\* decode_uint32_field(2)?, an absent field left at its default
decode_from_reader(source, p) ==
    LET a == decode_uint32_field(FromNat(32, 1), source, p)
    IN IF a.kind \in {"Err", "Panic"} THEN a
       ELSE LET b == decode_uint32_field(FromNat(32, 2), source, a.pos)
            IN IF b.kind \in {"Err", "Panic"} THEN b
               ELSE Ok([a |-> IF a.kind = "Some" THEN a.value ELSE Zero(32),
                        b |-> IF b.kind = "Some" THEN b.value ELSE Zero(32)], b.pos)

\* Protobuf::decode_from_slice: decode_from_reader on a new Cursor over bytes
decode_from_slice(bytes) == decode_from_reader(bytes, 0)

\* decode_message handing the rest of the source to the message instead of the
\* sub-buffer
decode_message_unbounded(source, p) ==
    LET sub_buffer == decode_bytes(source, p)
    IN IF sub_buffer.kind # "Ok" THEN sub_buffer
       ELSE LET given == SubSeq(source, sub_buffer.pos - Len(sub_buffer.value) + 1, Len(source))
                m == decode_from_slice(given)
            IN IF m.kind = "Panic" THEN Panic(sub_buffer.pos)
               ELSE IF m.kind = "Err" THEN Err(m.err, sub_buffer.pos)
               ELSE Ok([msg |-> m.value, consumed |-> m.pos, given |-> given], sub_buffer.pos)

\* decode_message::<M, _>(reader) on a Cursor at p.  The value returned is the
\* message; consumed and given record how far the message's own cursor went and the
\* bytes it was created over
decode_message(source, p) ==
    Bound({IF sub_buffer.kind # "Ok" THEN sub_buffer
           ELSE Bound({IF m.kind = "Panic" THEN Panic(sub_buffer.pos)
                       ELSE IF m.kind = "Err" THEN Err(m.err, sub_buffer.pos)
                       ELSE Ok([msg |-> m.value, consumed |-> m.pos,
                                given |-> sub_buffer.value], sub_buffer.pos) :
                       m \in {decode_from_slice(sub_buffer.value)}}) :
           sub_buffer \in {decode_bytes(source, p)}})

\* values of the fields a and b
MessageFieldValues == {Zero(32), FromNat(32, 1), FromNat(32, 300)}

\* the caller is handed a length varint and data: the fields a and b as the encoder
\* writes them and possibly a bool field 3; the length may declare any part of the
\* data, or one byte more than there is
LoadFramed ==
    \E a \in MessageFieldValues, b \in MessageFieldValues,
       extra \in {<<>>, encode_bool(FromNat(32, 3), TRUE)} :
        LET data == encode_uint32(FromNat(32, 1), a) \o encode_uint32(FromNat(32, 2), b)
                    \o extra
        IN \E length \in 0..(Len(data) + 1) :
              /\ src.op = "new"
              /\ wire' = encode_varint(FromNat(64, length)) \o data
              /\ pos' = 0
              /\ src' = [op |-> "framed", length |-> length, data |-> data]
              /\ call' = [op |-> "framed"]
              /\ ret' = [kind |-> "Ok"]
              /\ UNCHANGED builderVars

\* decode_message::<M, _>(&mut cursor)
DecodeMessage ==
    LET r == decode_message(wire, pos)
    IN /\ call.op = "framed"
       /\ call' = [op |-> "decode_message", at |-> pos]
       /\ ret' = r
       /\ pos' = r.pos
       /\ UNCHANGED <<wire, src>>
       /\ UNCHANGED builderVars

NextMessage ==
    \/ LoadFramed
    \/ DecodeMessage

SpecMessage == Init /\ [][NextMessage]_vars

-----------------------------------------------------------------------------
(* Packed repeated fields: encode_packed, decode_packed, decode_packed_field *)

\* the item kinds packed, their untagged writers and decode_<kind> as item decoder
PackedKinds == {"uint32", "sint64", "fixed32"}

\* value_writer_fn(value, &mut buffer) of an item kind: the untagged encoding
value_writer_fn(kind, value) ==
    CASE kind = "uint32" -> encode_varint(U32AsU64(value))
      [] kind = "sint64" -> encode_zigzag(value)
      [] kind = "fixed32" -> to_le_bytes(32, value)

RECURSIVE write_values(_, _)
\* `for value in values { value_writer_fn(value, &mut buffer)?; }`
write_values(kind, values) ==
    IF values = <<>> THEN <<>>
    ELSE value_writer_fn(kind, Head(values)) \o write_values(kind, Tail(values))

\* encode_packed writing the number of values as the length
encode_packed_count(field_number, values, kind) ==
    IF values = <<>> THEN <<>>
    ELSE encode_tag(field_number, LengthDelimited)
         \o encode_varint(FromNat(64, Len(values)))
         \o write_values(kind, values)

\* encode_packed(field_number, values, writer, value_writer_fn of the kind)
encode_packed(field_number, values, kind) ==
    IF values = <<>> THEN <<>>
    ELSE LET packed == write_values(kind, values)
         IN encode_tag(field_number, LengthDelimited)
            \o encode_varint(FromNat(64, Len(packed)))
            \o packed

RECURSIVE decode_packed_loop(_, _, _, _)
\* the loop of decode_packed over the Cursor at position on the sub-buffer
decode_packed_loop(packed, position, result, kind) ==
    IF position < Len(packed)
    THEN Bound({IF item.kind # "Ok" THEN item
                ELSE decode_packed_loop(packed, item.pos, Append(result, item.value), kind) :
                item \in {DecodeValue(kind, packed, position)}})
    ELSE Ok(result, position)

\* decode_packed(reader, decode_<kind>) on a Cursor at p
decode_packed(source, p, kind) ==
    Bound({IF packed.kind # "Ok" THEN packed
           ELSE Bound({IF r.kind = "Panic" THEN Panic(packed.pos)
                       ELSE IF r.kind = "Err" THEN Err(r.err, packed.pos)
                       ELSE Ok(r.value, packed.pos) :
                       r \in {decode_packed_loop(packed.value, 0, <<>>, kind)}}) :
           packed \in {decode_bytes(source, p)}})

\* decode_packed_field(field_number, reader, decode_<kind>) on a Cursor at p
decode_packed_field(field_number, source, p, kind) ==
    LET tag == Tag_decode(source, p)
    IN IF tag.kind # "Some" THEN tag
       ELSE IF tag.value.field_number # field_number THEN None(tag.pos)
       ELSE IF tag.value.wire_type # LengthDelimited
       THEN Err(UnexpectedWireType(LengthDelimited, tag.value.wire_type), tag.pos)
       ELSE LET r == decode_packed(source, tag.pos, kind)
            IN IF r.kind = "Ok" THEN Some(r.value, r.pos) ELSE r

\* items of a kind: zero, a one-byte and a two-byte varint, a negative number
PackedValues(kind) ==
    IF kind = "sint64" THEN {Zero(64), FromNat(64, 1), HighOnes(64, 6)}
    ELSE {Zero(32), FromNat(32, 1), FromNat(32, 300)}

\* encode_packed(n, values, &mut buffer, ...) on the fresh buffer
EncodePacked ==
    \E kind \in PackedKinds, n \in {1, 16} :
        \E values \in SeqsUpTo(PackedValues(kind), MaxItems) :
            /\ src.op = "new"
            /\ wire' = encode_packed(FromNat(32, n), values, kind)
            /\ pos' = 0
            /\ src' = [op |-> "encode_packed", kind |-> kind, n |-> n, values |-> values]
            /\ call' = [op |-> "encode_packed"]
            /\ ret' = [kind |-> "Ok"]
            /\ UNCHANGED builderVars

\* decode_packed_field(n, &mut cursor, decode_<kind>) for the field written
DecodePackedField ==
    LET r == decode_packed_field(FromNat(32, src.n), wire, pos, src.kind)
    IN /\ call.op = "encode_packed"
       /\ call' = [op |-> "decode_packed_field", at |-> pos]
       /\ ret' = r
       /\ pos' = r.pos
       /\ UNCHANGED <<wire, src>>
       /\ UNCHANGED builderVars

NextPacked ==
    \/ EncodePacked
    \/ DecodePackedField

SpecPacked == Init /\ [][NextPacked]_vars

-----------------------------------------------------------------------------
(* Truncated payloads: the untagged decoders on a source that ends too early *)

\* the kinds whose payload follows a length varint, and the fixed-width kinds
PayloadKinds == {"bytes", "string", "message", "packed"}
FixedKinds == {"float", "double", "fixed32", "fixed64", "sfixed32", "sfixed64"}

\* the bytes of [0u8; 4] or [0u8; 8] a fixed-width decoder reads
FixedWidth(kind) == IF kind \in {"float", "fixed32", "sfixed32"} THEN 4 ELSE 8

\* decode_<kind>(reader), decode_message::<M, _>(reader) or
\* decode_packed(reader, decode_uint32) on a Cursor at p
DecodePayloadOf(kind, source, p) ==
    CASE kind = "message" -> decode_message(source, p)
      [] kind = "packed" -> decode_packed(source, p, "uint32")
      [] OTHER -> DecodeValue(kind, source, p)

\* payload bytes that are a string, a message (a = 1, b = 5) and packed uint32 alike
PayloadData == <<8, 1, 16, 5>>

\* the lengths a source declares: 0, 2, 4, 300 and 2^63
DeclaredLengths ==
    {Zero(64), FromNat(64, 2), FromNat(64, 4), FromNat(64, 300), HighOnes(64, 63)}

\* the caller is handed the first given bytes of a length varint and, after a whole
\* varint, the first have bytes of the payload it declares
LoadTruncated ==
    \E kind \in PayloadKinds, length \in DeclaredLengths :
        LET header == encode_varint(length)
        IN \E given \in 0..Len(header), have \in 0..Len(PayloadData) :
              /\ src.op = "new"
              /\ given < Len(header) => have = 0
              /\ SmallNat(length) = -1 \/ have <= SmallNat(length)
              /\ wire' = SubSeq(header, 1, given) \o SubSeq(PayloadData, 1, have)
              /\ pos' = 0
              /\ src' = [op |-> "truncated", kind |-> kind, length |-> length,
                         header |-> header, given |-> given, have |-> have]
              /\ call' = [op |-> "truncated"]
              /\ ret' = [kind |-> "Ok"]
              /\ UNCHANGED builderVars

\* the caller is handed the first have bytes of a fixed-width value
LoadShortFixed ==
    \E kind \in FixedKinds :
        \E have \in 0..FixedWidth(kind) :
            /\ src.op = "new"
            /\ wire' = SubSeq(<<1, 2, 3, 4, 5, 6, 7, 8>>, 1, have)
            /\ pos' = 0
            /\ src' = [op |-> "short_fixed", kind |-> kind, width |-> FixedWidth(kind),
                       have |-> have]
            /\ call' = [op |-> "short_fixed"]
            /\ ret' = [kind |-> "Ok"]
            /\ UNCHANGED builderVars

\* the untagged decoder of the kind on a new Cursor over the bytes
DecodePayload ==
    LET r == DecodePayloadOf(src.kind, wire, pos)
    IN /\ call.op \in {"truncated", "short_fixed"}
       /\ call' = [op |-> "decode_payload", at |-> pos]
       /\ ret' = r
       /\ pos' = r.pos
       /\ UNCHANGED <<wire, src>>
       /\ UNCHANGED builderVars

NextTruncated ==
    \/ LoadTruncated
    \/ LoadShortFixed
    \/ DecodePayload

SpecTruncated == Init /\ [][NextTruncated]_vars

-----------------------------------------------------------------------------
(* The builder's collection and embedded-message calls, and encode_message *)

RECURSIVE encode_repeated(_, _, _)
\* encode_repeated(field_number, values, writer, encode_<kind>)
encode_repeated(field_number, values, kind) ==
    IF values = <<>> THEN <<>>
    ELSE Encode(kind, field_number, Head(values))
         \o encode_repeated(field_number, Tail(values), kind)

\* Protobuf::encode_to_vec: encode_to_writer into a new Vec
encode_to_vec(message) == encode_to_writer(message)

\* encode_message(field_number, message, writer)
encode_message(field_number, message) ==
    encode_tag(field_number, LengthDelimited)
    \o encode_varint(FromNat(64, Len(encode_to_vec(message))))
    \o encode_to_vec(message)

\* ProtobufBuilder::new()
new == [buffer |-> <<>>, field_numbers |-> {}]

\* the bytes a call appends after check_field has accepted its field number
appended(b, chk, bytes) ==
    IF chk.panic
    THEN [buffer |-> b.buffer, field_numbers |-> chk.set, panicked |-> TRUE]
    ELSE [buffer |-> b.buffer \o bytes, field_numbers |-> chk.set, panicked |-> FALSE]

\* add_repeated(field_number, values, encode_<kind>)
add_repeated(b, field_number, values, kind) ==
    appended(b, check_field(b.field_numbers, field_number),
             encode_repeated(FromNat(32, field_number), values, kind))

\* add_packed recording the field number only when it writes
add_packed_unless_empty(b, field_number, values, kind) ==
    IF values = <<>> THEN [buffer |-> b.buffer, field_numbers |-> b.field_numbers,
                           panicked |-> FALSE]
    ELSE appended(b, check_field(b.field_numbers, field_number),
                  encode_packed(FromNat(32, field_number), values, kind))

\* add_packed(field_number, values, value_writer of the kind)
add_packed(b, field_number, values, kind) ==
    appended(b, check_field(b.field_numbers, field_number),
             encode_packed(FromNat(32, field_number), values, kind))

\* add_map(field_number, map, encode_<key_kind>, encode_<value_kind>)
add_map(b, field_number, map, key_kind, value_kind) ==
    appended(b, check_field(b.field_numbers, field_number),
             encode_map(FromNat(32, field_number), map, key_kind, value_kind))

\* add_message writing nothing for an inner builder that builds to no bytes
add_message_omit_empty(b, field_number, message) ==
    LET inner_bytes == build(message).result
    IN appended(b, check_field(b.field_numbers, field_number),
                IF inner_bytes = <<>> THEN <<>>
                ELSE encode_tag(FromNat(32, field_number), LengthDelimited)
                     \o encode_varint(FromNat(64, Len(inner_bytes)))
                     \o inner_bytes)

\* add_message(field_number, message): message is the inner ProtobufBuilder
add_message(b, field_number, message) ==
    LET inner_bytes == build(message).result
    IN appended(b, check_field(b.field_numbers, field_number),
                encode_tag(FromNat(32, field_number), LengthDelimited)
                \o encode_varint(FromNat(64, Len(inner_bytes)))
                \o inner_bytes)

\* add_message_with_trait(field_number, message): message implements Protobuf
add_message_with_trait(b, field_number, message) ==
    LET inner_bytes == encode_to_vec(message)
    IN appended(b, check_field(b.field_numbers, field_number),
                encode_tag(FromNat(32, field_number), LengthDelimited)
                \o encode_varint(FromNat(64, Len(inner_bytes)))
                \o inner_bytes)

\* the add_* calls made: three scalar kinds, the collections (of uint32, and a map
\* from string to uint32) and the embedded messages
AddKinds ==
    {"uint32", "string", "bytes", "repeated", "packed", "map", "message",
     "message_with_trait"}

\* a message with the one uint32 field a = v, as a Protobuf value
MessageOf(v) == <<[kind |-> "uint32", n |-> 1, v |-> v]>>

\* per kind of call, an argument that makes it write nothing (where there is one) and
\* one that makes it write; an inner builder is new or has had add_uint32(1, v)
AddArgs(kind) ==
    CASE kind = "uint32" -> {Zero(32), FromNat(32, 300)}
      [] kind = "string" -> {<<>>, <<111, 107>>}
      [] kind = "bytes" -> {<<>>, <<0, 255>>}
      [] kind = "repeated" -> {<<>>, <<FromNat(32, 1), FromNat(32, 300)>>}
      [] kind = "packed" -> {<<>>, <<FromNat(32, 1), FromNat(32, 300)>>}
      [] kind = "map" -> {<<>>, <<[key |-> <<107>>, value |-> FromNat(32, 2)]>>}
      [] kind = "message" ->
            {new, add_scalar(new, "uint32", 1, Zero(32)),
             add_scalar(new, "uint32", 1, FromNat(32, 300))}
      [] kind = "message_with_trait" -> {MessageOf(Zero(32)), MessageOf(FromNat(32, 300))}

\* the add_* call of the kind on the builder b
add_field(b, kind, field_number, arg) ==
    CASE kind = "repeated" -> add_repeated(b, field_number, arg, "uint32")
      [] kind = "packed" -> add_packed(b, field_number, arg, "uint32")
      [] kind = "map" -> add_map(b, field_number, arg, "string", "uint32")
      [] kind = "message" -> add_message(b, field_number, arg)
      [] kind = "message_with_trait" -> add_message_with_trait(b, field_number, arg)
      [] OTHER -> add_scalar(b, kind, field_number, arg)

\* the field numbers of this builder
AddFields == {1, 2}

\* an add_* call of any of the kinds on the builder; a panic ends the program
AddField ==
    \E n \in AddFields, kind \in AddKinds :
        \E arg \in AddArgs(kind) :
            LET b == add_field([buffer |-> buffer, field_numbers |-> field_numbers],
                               kind, n, arg)
            IN /\ phase # "Aborted"
               /\ buffer' = b.buffer
               /\ field_numbers' = b.field_numbers
               /\ phase' = IF b.panicked THEN "Aborted" ELSE phase
               /\ calls' = IF b.panicked THEN calls
                           ELSE Append(calls, [kind |-> kind, n |-> n, v |-> arg,
                                               at |-> Len(buffer)])
               /\ passed' = passed \cup {n}
               /\ last' = [op |-> "add", n |-> n]
               /\ built' = <<>>
               /\ UNCHANGED codecVars

\* encode_message(n, &message, &mut buffer) on the fresh buffer
EncodeMessage ==
    \E n \in AddFields, v \in {Zero(32), FromNat(32, 300)} :
        /\ src.op = "new"
        /\ wire' = encode_message(FromNat(32, n), MessageOf(v))
        /\ pos' = 0
        /\ src' = [op |-> "encode_message", n |-> n, message |-> MessageOf(v)]
        /\ call' = [op |-> "encode_message"]
        /\ ret' = [kind |-> "Ok"]
        /\ UNCHANGED builderVars

NextFields ==
    \/ AddField
    \/ Build
    \/ EncodeMessage

SpecFields == Init /\ [][NextFields]_vars

-----------------------------------------------------------------------------
(* Ten-byte varints: decode_varint on nine continuation bytes and a last byte *)

\* the caller is handed nine continuation-flagged bytes (the first a, the others c)
\* and a tenth byte with the flag clear and any payload
LoadTenBytes ==
    \E a \in {128, 129}, c \in {128, 255}, tenth \in 0..127 :
        /\ src.op = "new"
        /\ wire' = <<a>> \o [i \in 1..8 |-> c] \o <<tenth>>
        /\ pos' = 0
        /\ src' = [op |-> "ten_bytes", tenth |-> tenth]
        /\ call' = [op |-> "raw"]
        /\ ret' = [kind |-> "Ok"]
        /\ UNCHANGED builderVars

NextTenBytes ==
    \/ LoadTenBytes
    \/ DecodeVarint

SpecTenBytes == Init /\ [][NextTenBytes]_vars

-----------------------------------------------------------------------------
(* amia-base64: the Base64 trait over byte slices.  Text is a sequence of bytes. *)

\* b"ABC...XYZabc...xyz0123456789+/", indexed from 0 as the slice is
BASE64_TABLE ==
    [i \in 0..63 |->
        IF i < 26 THEN 65 + i
        ELSE IF i < 52 THEN 97 + (i - 26)
        ELSE IF i < 62 THEN 48 + (i - 52)
        ELSE IF i = 62 THEN 43 ELSE 47]

INVALID == 255

\* [INVALID; 256] with table[BASE64_TABLE[i]] = i for i < 64
build_reverse_table ==
    [c \in 0..255 |->
        IF \E i \in 0..63 : BASE64_TABLE[i] = c
        THEN CHOOSE i \in 0..63 : BASE64_TABLE[i] = c
        ELSE INVALID]

REVERSE_BASE64_TABLE == build_reverse_table

\* a | b on u8
Or8(a, b) ==
    LET bit(x, k) == (x \div (2 ^ k)) % 2
        or(k) == IF bit(a, k) = 1 \/ bit(b, k) = 1 THEN 2 ^ k ELSE 0
    IN or(0) + or(1) + or(2) + or(3) + or(4) + or(5) + or(6) + or(7)

\* a << k on u8: the bits shifted out are lost
Shl8(a, k) == (a * (2 ^ k)) % 256

\* io::Error::new(io::ErrorKind::InvalidData, message)
InvalidData(message) == [kind |-> "Err", err |-> <<"InvalidData", message>>]

\* Ok(value) of an io::Result
IoOk(value) == [kind |-> "Ok", value |-> value]

RECURSIVE Base64_encode_to_writer(_)
\* encode_to_writer(data, writer) of amia-base64: the bytes written, chunk by chunk
\* of data.chunks(3); n is (b0 << 16) | (b1 << 8) | b2 on u32
Base64_encode_to_writer(data) ==
    IF data = <<>> THEN <<>>
    ELSE LET chunk == SubSeq(data, 1, IF Len(data) < 3 THEN Len(data) ELSE 3)
             b0 == chunk[1]
             b1 == IF Len(chunk) > 1 THEN chunk[2] ELSE 0
             b2 == IF Len(chunk) > 2 THEN chunk[3] ELSE 0
             n == b0 * 65536 + b1 * 256 + b2
             output == <<BASE64_TABLE[(n \div 262144) % 64],
                         BASE64_TABLE[(n \div 4096) % 64],
                         IF Len(chunk) > 1 THEN BASE64_TABLE[(n \div 64) % 64] ELSE 61,
                         IF Len(chunk) > 2 THEN BASE64_TABLE[n % 64] ELSE 61>>
         IN output \o Base64_encode_to_writer(SubSeq(data, Len(chunk) + 1, Len(data)))

RECURSIVE Base64_decode_chunks_wide(_, _)
\* the loop of decode_to_writer computing v1 << 4 and v2 << 6 without the u8 width
Base64_decode_chunks_wide(input, output) ==
    IF input = <<>> THEN IoOk(output)
    ELSE LET c0 == input[1]
             c1 == input[2]
             c2 == input[3]
             c3 == input[4]
             v0 == REVERSE_BASE64_TABLE[c0]
             v1 == REVERSE_BASE64_TABLE[c1]
             v2 == IF c2 # 61 THEN REVERSE_BASE64_TABLE[c2] ELSE 0
             v3 == IF c3 # 61 THEN REVERSE_BASE64_TABLE[c3] ELSE 0
         IN IF \/ v0 = INVALID
               \/ v1 = INVALID
               \/ (c2 # 61 /\ v2 = INVALID)
               \/ (c3 # 61 /\ v3 = INVALID)
            THEN InvalidData("Invalid Base64 character")
            ELSE Base64_decode_chunks_wide(
                     SubSeq(input, 5, Len(input)),
                     output \o <<Or8(Shl8(v0, 2), v1 \div 16)>>
                            \o (IF c2 # 61 THEN <<v1 * 16 + v2 \div 4>> ELSE <<>>)
                            \o (IF c3 # 61 THEN <<v2 * 64 + v3>> ELSE <<>>))

RECURSIVE Base64_decode_chunks(_, _)
\* the loop of decode_to_writer over input.chunks(4), output being what was written
Base64_decode_chunks(input, output) ==
    IF input = <<>> THEN IoOk(output)
    ELSE LET c0 == input[1]
             c1 == input[2]
             c2 == input[3]
             c3 == input[4]
             v0 == REVERSE_BASE64_TABLE[c0]
             v1 == REVERSE_BASE64_TABLE[c1]
             v2 == IF c2 # 61 THEN REVERSE_BASE64_TABLE[c2] ELSE 0
             v3 == IF c3 # 61 THEN REVERSE_BASE64_TABLE[c3] ELSE 0
         IN IF \/ v0 = INVALID
               \/ v1 = INVALID
               \/ (c2 # 61 /\ v2 = INVALID)
               \/ (c3 # 61 /\ v3 = INVALID)
            THEN InvalidData("Invalid Base64 character")
            ELSE Base64_decode_chunks(
                     SubSeq(input, 5, Len(input)),
                     output \o <<Or8(Shl8(v0, 2), v1 \div 16)>>
                            \o (IF c2 # 61 THEN <<Or8(Shl8(v1, 4), v2 \div 4)>> ELSE <<>>)
                            \o (IF c3 # 61 THEN <<Or8(Shl8(v2, 6), v3)>> ELSE <<>>))

\* decode_to_writer(input, writer) of amia-base64
Base64_decode_to_writer(input) ==
    IF Len(input) % 4 # 0 THEN InvalidData("Invalid Base64 length")
    ELSE Base64_decode_chunks(input, <<>>)

\* Base64::encode_base64: the String as its bytes
encode_base64(data) == IoOk(Base64_encode_to_writer(data))

\* input without its CR and LF bytes
filtered(input) == SelectSeq(input, LAMBDA b : b # 13 /\ b # 10)

\* Base64::decode_base64
decode_base64(input) ==
    Bound({Base64_decode_to_writer(f) : f \in {filtered(input)}})

\* the byte sequences encoded
Base64Data == SeqsUpTo(ByteAlphabet, MaxData)

\* the texts decoded that no encoder wrote: 'A', '/', '=', '*', CR and LF
Base64Texts == SeqsUpTo({65, 47, 61, 42, 13, 10}, MaxText)

\* data.encode_base64() into the fresh buffer
EncodeBase64 ==
    \E data \in Base64Data :
        /\ src.op = "new"
        /\ wire' = encode_base64(data).value
        /\ pos' = 0
        /\ src' = [op |-> "base64_data", data |-> data]
        /\ call' = [op |-> "encode_base64"]
        /\ ret' = [kind |-> "Ok"]
        /\ UNCHANGED builderVars

\* the caller is handed a text
LoadText ==
    \E text \in Base64Texts :
        /\ src.op = "new"
        /\ wire' = text
        /\ pos' = 0
        /\ src' = [op |-> "base64_text"]
        /\ call' = [op |-> "text"]
        /\ ret' = [kind |-> "Ok"]
        /\ UNCHANGED builderVars

\* text.decode_base64() of the text held
DecodeBase64 ==
    /\ call.op \in {"encode_base64", "text"}
    /\ call' = [op |-> "decode_base64"]
    /\ ret' = decode_base64(wire)
    /\ UNCHANGED <<wire, pos, src>>
    /\ UNCHANGED builderVars

NextBase64 ==
    \/ EncodeBase64
    \/ LoadText
    \/ DecodeBase64

SpecBase64 == Init /\ [][NextBase64]_vars

Next ==
    NextCodec \/ NextBuilder \/ NextSequential \/ NextMismatch \/ NextMap \/ NextMessage
    \/ NextPacked \/ NextTruncated \/ NextFields \/ NextTenBytes \/ NextBase64

Spec == Init /\ [][Next]_vars

-----------------------------------------------------------------------------
(* Properties of the codec, checked under SpecCodec *)

\* the zero / false / empty value of a kind
DefaultOf(kind) ==
    IF kind \in Kinds32 THEN [i \in 0..31 |-> 0]
    ELSE IF kind \in Kinds64 THEN [i \in 0..63 |-> 0]
    ELSE IF kind = "bool" THEN FALSE
    ELSE <<>>

\* the wire type proto3 gives a kind
CanonicalWireType(kind) ==
    IF kind \in VarintKinds THEN 0
    ELSE IF kind \in {"fixed64", "sfixed64", "double"} THEN 1
    ELSE IF kind \in {"string", "bytes"} THEN 2
    ELSE 5

ValidFieldNumbers == 1..(2 ^ 29 - 1)

\* the integer, bool, fixed-width and bytes kinds
RoundTripKinds ==
    {"uint32", "int32", "int64", "uint64", "sint32", "sint64", "bool", "bytes",
     "fixed32", "fixed64", "sfixed32", "sfixed64"}

\* the buffer written by encode_<kind>(n, v) was read back by decode_<kind>_field(n)
ReadBackSameField ==
    /\ src.op = "encode"
    /\ call.op = "decode_field"
    /\ call.kind = src.kind
    /\ call.n = src.n

\* C1: for every integer, bool, fixed-width and bytes kind, every field number in
\* 1..2^29-1 and every value v, decode_<kind>_field(n) on the buffer that
\* encode_<kind>(n, v) wrote returns Ok(Some(v)) and consumes the whole buffer when v
\* is not the default value; for the default value the buffer is empty and the
\* call returns Ok(None).
C1_ScalarRoundTrip ==
    (ReadBackSameField /\ src.kind \in RoundTripKinds /\ src.n \in ValidFieldNumbers) =>
        IF src.v = DefaultOf(src.kind)
        THEN wire = <<>> /\ ret.kind = "None"
        ELSE ret.kind = "Some" /\ ret.value = src.v /\ pos = Len(wire)

\* a negative sint64 under the largest field number came back
C1_Witness ==
    /\ ReadBackSameField
    /\ src.kind = "sint64"
    /\ src.n = 536870911
    /\ src.v[63] = 1
    /\ ret.kind = "Some"
    /\ ret.value = src.v
    /\ Len(wire) > 6

\* the kinds C2 lists (every scalar encode function but encode_float / encode_double)
OmissionKinds == ScalarKinds \ {"float", "double"}

\* b starts with a
IsPrefix(a, b) == Len(a) <= Len(b) /\ SubSeq(b, 1, Len(a)) = a

\* C2: every scalar encode function, for every field number, writes zero bytes and
\* returns Ok when the value is the kind's zero / false / empty value, and writes at
\* least the tag (field number with the kind's wire type) for any other value.
C2_DefaultOmission ==
    (call.op = "encode" /\ call.kind \in OmissionKinds) =>
        /\ ret.kind = "Ok"
        /\ IF call.v = DefaultOf(call.kind)
           THEN wire = <<>>
           ELSE /\ Len(wire) >= 1
                /\ IsPrefix(encode_varint(U32AsU64(
                                make_tag(FromNat(32, call.n), CanonicalWireType(call.kind)))),
                            wire)

\* a default uint64 left the buffer empty
C2_Witness ==
    /\ call.op = "encode"
    /\ call.kind = "uint64"
    /\ call.n = 16
    /\ call.v = DefaultOf("uint64")
    /\ wire = <<>>

\* the seven bits of v's group g (bits 7g .. 7g+6), as a number
Group(v, g) ==
    LET bit(j) == IF 7 * g + j <= 63 THEN v[7 * g + j] ELSE 0
    IN bit(0) + 2 * bit(1) + 4 * bit(2) + 8 * bit(3) + 16 * bit(4) + 32 * bit(5) + 64 * bit(6)

\* C3: decode_varint on the bytes encode_varint(v) wrote returns Ok(v) and consumes
\* exactly those bytes; the bytes are v's 7-bit groups, least significant first,
\* every byte but the last with the 0x80 bit set and the last with it clear.
C3_VarintRoundTrip ==
    (src.op = "encode_varint") =>
        /\ Len(wire) >= 1
        /\ \A i \in 1..Len(wire) :
              /\ wire[i] % 128 = Group(src.v, i - 1)
              /\ (wire[i] >= 128) = (i < Len(wire))
        /\ call.op = "decode_varint" =>
              (ret.kind = "Ok" /\ ret.value = src.v /\ pos = Len(wire))

\* 2^64 - 1 went through ten bytes and came back
C3_Witness ==
    /\ src.op = "encode_varint"
    /\ \A i \in 0..63 : src.v[i] = 1
    /\ Len(wire) = 10
    /\ call.op = "decode_varint"
    /\ ret.kind = "Ok"
    /\ ret.value = src.v

\* the bytes a call starting at cursor position at had before it
Ahead(at) == SubSeq(wire, at + 1, Len(wire))

AllContinuation(bytes) == \A i \in 1..Len(bytes) : bytes[i] >= 128

\* C4 as stated: decode_varint on any (non-empty) source whose bytes all carry the
\* continuation bit fails with InvalidVarint, and no call reads more than 10 bytes.
C4_AsStated ==
    (call.op = "decode_varint") =>
        /\ pos - call.at <= 10
        /\ (Len(Ahead(call.at)) >= 1 /\ AllContinuation(Ahead(call.at))) =>
              (ret.kind = "Err" /\ ret.err = <<"InvalidVarint">>)

\* C4, amended: decode_varint fails with InvalidVarint on any source whose first 10
\* bytes all carry the continuation bit (so on 11 such bytes), having read exactly
\* those 10; on a shorter source of continuation-flagged bytes only it fails with
\* UnexpectedEof; and no call reads more than 10 bytes.
C4_OverlongVarint ==
    (call.op = "decode_varint") =>
        LET ahead == Ahead(call.at)
        IN /\ pos - call.at <= 10
           /\ (Len(ahead) >= 10 /\ AllContinuation(SubSeq(ahead, 1, 10))) =>
                 (ret.kind = "Err" /\ ret.err = <<"InvalidVarint">> /\ pos = call.at + 10)
           /\ (Len(ahead) < 10 /\ AllContinuation(ahead)) =>
                 (ret.kind = "Err" /\ ret.err = <<"UnexpectedEof">>)

\* eleven continuation-flagged bytes were refused after ten
C4_Witness ==
    /\ call.op = "decode_varint"
    /\ Len(wire) = 11
    /\ AllContinuation(wire)
    /\ ret.kind = "Err"
    /\ ret.err = <<"InvalidVarint">>
    /\ pos = 10

\* C5: for every field number n in 1..2^29-1 and each of the wire types Varint,
\* Fixed64, LengthDelimited and Fixed32, decode_tag on the bytes encode_tag(n, wt)
\* wrote returns Ok(Some(Tag{field_number: n, wire_type: wt})).
C5_TagRoundTrip ==
    (/\ src.op = "encode_tag"
     /\ src.n \in ValidFieldNumbers
     /\ src.wt \in {0, 1, 2, 5}
     /\ call.op = "decode_tag") =>
        /\ ret.kind = "Some"
        /\ ret.value.field_number = FromNat(32, src.n)
        /\ ret.value.wire_type = src.wt
        /\ pos = Len(wire)

\* the largest field number with wire type Fixed32 came back from five bytes
C5_Witness ==
    /\ src.op = "encode_tag"
    /\ src.n = 536870911
    /\ src.wt = 5
    /\ call.op = "decode_tag"
    /\ ret.kind = "Some"
    /\ ret.value.wire_type = 5
    /\ Len(wire) = 5

\* C6: Tag::decode of a complete varint t returns Ok(None) when t = 0,
\* Err(InvalidTag) when t # 0 and t >> 3 = 0, Err(InvalidWireType(t & 7)) when
\* t >> 3 >= 1 and t & 7 is not in {0, 1, 2, 5}, and otherwise Ok(Some(tag)) with
\* field_number = t >> 3 and the wire type t & 7.
C6_TagClassification ==
    (call.op = "decode_tag" /\ decode_varint(wire, call.at).kind = "Ok") =>
        LET t == decode_varint(wire, call.at).value
            number == [i \in 0..63 |-> IF i + 3 <= 63 THEN t[i + 3] ELSE 0]
            nibble == t[0] + 2 * t[1] + 4 * t[2]
        IN IF \A i \in 0..63 : t[i] = 0 THEN ret.kind = "None"
           ELSE IF \A i \in 0..63 : number[i] = 0
           THEN ret.kind = "Err" /\ ret.err = <<"InvalidTag">>
           ELSE IF nibble \notin {0, 1, 2, 5}
           THEN ret.kind = "Err" /\ ret.err = <<"InvalidWireType", nibble>>
           ELSE /\ ret.kind = "Some"
                /\ \A i \in 0..63 :
                      number[i] = (IF i <= 31 THEN ret.value.field_number[i] ELSE 0)
                /\ ret.value.wire_type = nibble

\* C7: for every byte sequence, Tag::decode and every decode_*_field function
\* return Ok(Some), Ok(None) or an Err(DecodeError); no input makes the call panic.
C7_NeverPanics ==
    (call.op \in {"decode_tag", "decode_field"}) => ret.kind \in {"Some", "None", "Err"}

-----------------------------------------------------------------------------
(* Properties of the builder, checked under SpecBuilder *)

\* C8: while a ProtobufBuilder is Open, field_numbers is exactly the set of field
\* numbers passed to add_* calls since creation, and an add_* call whose field
\* number is already in that set aborts with the buffer as it was, while one with
\* a new number is accepted and leaves the builder Open.
C8_BuilderUniqueness ==
    /\ [](phase = "Open" => field_numbers = passed)
    /\ [][(phase = "Open" /\ last'.op = "add") =>
             /\ field_numbers' = passed'
             /\ IF last'.n \in field_numbers
                THEN phase' = "Aborted" /\ buffer' = buffer /\ calls' = calls
                ELSE /\ phase' = "Open"
                     /\ field_numbers' = field_numbers \cup {last'.n}
                     /\ Len(calls') = Len(calls) + 1]_vars

\* a second add of a field number aborted a builder that holds two fields' bytes
C8_Witness ==
    /\ phase = "Aborted"
    /\ last.op = "add"
    /\ last.n \in field_numbers
    /\ field_numbers = passed
    /\ Cardinality(field_numbers) = 2
    /\ Len(calls) = 2
    /\ Len(buffer) > 2

\* C9: once build() has been called the instance is in the terminal Built state:
\* it holds no field and no later add_* call is accepted as a field addition.
C9_BuiltIsTerminal ==
    (phase = "Built") => (field_numbers = {} /\ buffer = <<>> /\ calls = <<>>)

RECURSIVE EncodeAll(_)
\* the bytes the encode functions emit for the calls cs, concatenated in call order
EncodeAll(cs) ==
    IF cs = <<>> THEN <<>>
    ELSE LET c == Head(cs)
         IN Encode(c.kind, FromNat(32, c.n), c.v) \o EncodeAll(Tail(cs))

\* the calls add_string(1, "ok"), add_uint32(2, 0), add_bool(3, true), in that order
IsOkZeroTrue(cs) ==
    /\ Len(cs) = 3
    /\ cs[1].kind = "string" /\ cs[1].n = 1 /\ cs[1].v = <<111, 107>>
    /\ cs[2].kind = "uint32" /\ cs[2].n = 2 /\ cs[2].v = [i \in 0..31 |-> 0]
    /\ cs[3].kind = "bool" /\ cs[3].n = 3 /\ cs[3].v = TRUE

\* C10: build() returns exactly the concatenation, in call order, of the bytes the
\* encode functions emit for the add_* calls made (their field numbers pairwise
\* distinct); default-valued fields contribute nothing, so add_string(1, "ok"),
\* add_uint32(2, 0), add_bool(3, true) builds to field 1's bytes then field 3's.
C10_BuilderOutput ==
    (last.op = "build") =>
        /\ built = EncodeAll(last.from)
        /\ \A i, j \in 1..Len(last.from) : i # j => last.from[i].n # last.from[j].n
        /\ IsOkZeroTrue(last.from) => built = <<10, 2, 111, 107, 24, 1>>

\* the three calls of the example were built
C10_Witness ==
    /\ last.op = "build"
    /\ IsOkZeroTrue(last.from)
    /\ built = <<10, 2, 111, 107, 24, 1>>

-----------------------------------------------------------------------------
(* Properties of sequential decoding, checked under SpecSequential *)

\* C11: when the fields of a message written in ascending field-number order are
\* read back by one decode_*_field call per known field, in ascending order, each
\* call returns Ok(None) for a field omitted as a default and Ok(Some(v)) with the
\* encoded value for a present field, the fields after an omitted one included.
C11_SequentialPresence ==
    (call.op = "decode_seq") =>
        LET f == src.fields[call.i]
        IN IF Encode(f.kind, FromNat(32, f.n), f.v) = <<>>
           THEN ret.kind = "None"
           ELSE ret.kind = "Some" /\ ret.value = f.v

-----------------------------------------------------------------------------
(* Properties of reading a field as another kind, checked under SpecMismatch *)

\* C12: when the next tag carries the requested field number but not the wire type
\* of the kind asked for, decode_<kind>_field returns
\* Err(UnexpectedWireType{expected: the kind's wire type, got: the tag's}) with the
\* cursor just after the tag (no value byte read), and so never returns a value.
C12_WireTypeMismatch ==
    (call.op = "decode_field") =>
        LET tag == Tag_decode(wire, call.at)
        IN (/\ tag.kind = "Some"
            /\ tag.value.field_number = FromNat(32, call.n)
            /\ tag.value.wire_type # CanonicalWireType(call.kind)) =>
               /\ ret.kind = "Err"
               /\ ret.err = <<"UnexpectedWireType", CanonicalWireType(call.kind),
                              tag.value.wire_type>>
               /\ pos = tag.pos

\* a string field of two bytes was asked for as a bool and refused after its tag
C12_Witness ==
    /\ call.op = "decode_field"
    /\ call.kind = "bool"
    /\ src.op = "encode"
    /\ src.kind = "string"
    /\ src.n = call.n
    /\ Len(src.v) = 2
    /\ ret.kind = "Err"
    /\ ret.err = <<"UnexpectedWireType", 0, 2>>
    /\ pos = 2
    /\ Len(wire) = 5

-----------------------------------------------------------------------------
(* Properties of map fields, checked under SpecMap *)

RECURSIVE EntryPayloads(_, _)
\* bytes from p on, split into the payloads of length-delimited entries tagged with the
\* map's field number; ok is FALSE when the bytes are not a run of such entries
EntryPayloads(bytes, p) ==
    IF p >= Len(bytes) THEN [ok |-> TRUE, payloads |-> <<>>]
    ELSE LET tag == Tag_decode(bytes, p)
         IN IF \/ tag.kind # "Some"
               \/ tag.value.field_number # FromNat(32, MapField)
               \/ tag.value.wire_type # LengthDelimited
            THEN [ok |-> FALSE, payloads |-> <<>>]
            ELSE LET body == decode_bytes(bytes, tag.pos)
                 IN IF body.kind # "Ok" THEN [ok |-> FALSE, payloads |-> <<>>]
                    ELSE LET rest == EntryPayloads(bytes, body.pos)
                         IN [ok |-> rest.ok, payloads |-> <<body.value>> \o rest.payloads]

\* payload holds exactly two fields: the key at field number 1, then the value at 2
TwoFields(payload, key_kind, key, value_kind, value) ==
    LET t1 == Tag_decode(payload, 0)
    IN /\ t1.kind = "Some"
       /\ t1.value.field_number = FromNat(32, 1)
       /\ t1.value.wire_type = CanonicalWireType(key_kind)
       /\ LET k == DecodeValue(key_kind, payload, t1.pos)
          IN /\ k.kind = "Ok"
             /\ k.value = key
             /\ LET t2 == Tag_decode(payload, k.pos)
                IN /\ t2.kind = "Some"
                   /\ t2.value.field_number = FromNat(32, 2)
                   /\ t2.value.wire_type = CanonicalWireType(value_kind)
                   /\ LET v == DecodeValue(value_kind, payload, t2.pos)
                      IN v.kind = "Ok" /\ v.value = value /\ v.pos = Len(payload)

\* C13: for every pair of the map, pairs whose key or value is the zero / empty value
\* included, encode_map with the scalar encode functions writes one length-delimited
\* entry tagged with the map's field number whose payload holds exactly two fields,
\* the key at field number 1 followed by the value at field number 2.
C13_MapEntryEncoding ==
    (src.op = "map_message") =>
        LET es == EntryPayloads(src.entries, 0)
        IN /\ es.ok
           /\ Len(es.payloads) = Len(src.map)
           /\ \A i \in 1..Len(src.map) :
                 TwoFields(es.payloads[i], src.key_kind, src.map[i].key,
                           src.value_kind, src.map[i].value)

\* the entry handed over does not hold a key at field 1 followed by a value at field 2:
\* a sub-field is missing or under another number, or value and key are swapped
IllFormedEntry ==
    \/ src.first.bytes = <<>>
    \/ src.first.n # 1
    \/ src.second.bytes = <<>>
    \/ src.second.n # 2
    \/ src.first.role = "value" /\ src.second.role = "key"

\* C14: decode_map and decode_map_field return Err(MalformedInput) for an entry whose
\* first sub-field is missing or not field 1, or whose second is missing or not
\* field 2, or that holds the value at field 1 and the key at field 2; no map with a
\* pair taken from such an entry is returned.
C14_MapEntryValidation ==
    (/\ src.op = "map_entry"
     /\ call.op \in {"decode_map", "decode_map_field"}
     /\ IllFormedEntry) =>
        (ret.kind = "Err" /\ ret.err[1] = "MalformedInput")

\* where a decode_map_field call that began at cursor position at meets the first tag
\* that is not the map's: at the uint32 field 1 when it was not read first, else
\* behind the map's entries
NonMatchingTagAt(at) ==
    IF at < Len(src.lead) THEN 0 ELSE Len(src.lead) + Len(src.entries)

\* C19: whenever decode_map_field(n, ...) stops because it read a tag whose field
\* number is not n, it returns Ok with the entries collected so far and leaves the
\* source at the first byte of that tag, from every starting position (0 included),
\* so that the next decode call reads that tag again.
C19_MapFieldRewinds ==
    /\ (/\ src.op = "map_message"
        /\ call.op = "decode_map_field"
        /\ ret.kind = "Ok"
        /\ NonMatchingTagAt(call.at) < Len(wire)) =>
           /\ pos = NonMatchingTagAt(call.at)
           /\ ret.value = IF call.at < Len(src.lead) THEN {}
                          ELSE {src.map[i] : i \in 1..Len(src.map)}
    /\ (/\ src.op = "map_message"
        /\ call.op = "decode_trail"
        /\ call.after = Len(src.lead)
        /\ src.trail # <<>>) =>
           (ret.kind = "Some" /\ ret.value = FromNat(32, 300))

-----------------------------------------------------------------------------
(* Further properties of the varint primitives, checked under SpecCodec *)

\* (n << 1) ^ (n >> 63) bit by bit: the sign in bit 0, above it n's bits, inverted
\* when n is negative
ZigzagOf(n) ==
    [i \in 0..63 |-> IF i = 0 THEN n[63] ELSE (IF n[i - 1] # n[63] THEN 1 ELSE 0)]

\* C15: encode_zigzag(n) writes the varint of (n << 1) ^ (n >> 63), decode_zigzag of
\* that value is n, and encode_zigzag(-1) writes the single byte 0x01.
C15_ZigzagSymmetry ==
    /\ (src.op = "encode_zigzag" /\ call.op = "decode_varint") =>
          /\ ret.kind = "Ok"
          /\ ret.value = ZigzagOf(src.v)
          /\ decode_zigzag(ret.value) = src.v
    /\ (src.op = "encode_zigzag" /\ \A i \in 0..63 : src.v[i] = 1) => wire = <<1>>

\* -1 was written as the byte 0x01 and came back from it
C15_Witness ==
    /\ src.op = "encode_zigzag"
    /\ \A i \in 0..63 : src.v[i] = 1
    /\ wire = <<1>>
    /\ call.op = "decode_varint"
    /\ ret.kind = "Ok"
    /\ decode_zigzag(ret.value) = src.v

\* C16 as stated: encode_varint(0) writes exactly 1 byte, encode_varint(2^63-1) and
\* encode_varint(2^64-1) both write exactly 10 bytes, and no value writes fewer than
\* 1 or more than 10 bytes.
C16_AsStated ==
    (src.op = "encode_varint") =>
        /\ Len(wire) \in 1..10
        /\ (\A i \in 0..63 : src.v[i] = 0) => Len(wire) = 1
        /\ (\A i \in 0..63 : src.v[i] = (IF i < 63 THEN 1 ELSE 0)) => Len(wire) = 10
        /\ (\A i \in 0..63 : src.v[i] = 1) => Len(wire) = 10

\* C16, amended: encode_varint(0) writes exactly 1 byte, encode_varint(2^63-1)
\* exactly 9 bytes, encode_varint(2^63) and encode_varint(2^64-1) exactly 10; every
\* value writes size_of_varint(value) bytes, never fewer than 1 or more than 10.
C16_VarintLengths ==
    (src.op = "encode_varint") =>
        /\ Len(wire) \in 1..10
        /\ Len(wire) = size_of_varint(src.v)
        /\ (\A i \in 0..63 : src.v[i] = 0) => Len(wire) = 1
        /\ (\A i \in 0..63 : src.v[i] = (IF i < 63 THEN 1 ELSE 0)) => Len(wire) = 9
        /\ (\A i \in 0..63 : src.v[i] = (IF i = 63 THEN 1 ELSE 0)) => Len(wire) = 10
        /\ (\A i \in 0..63 : src.v[i] = 1) => Len(wire) = 10

\* 2^63 - 1 was written in nine bytes
C16_Witness ==
    /\ src.op = "encode_varint"
    /\ \A i \in 0..63 : src.v[i] = (IF i < 63 THEN 1 ELSE 0)
    /\ Len(wire) = 9
    /\ wire[9] = 127

\* C20: decode_varint returns Err(UnexpectedEof) whenever it runs out of source before
\* reading a byte with the continuation bit clear (the bytes ahead, fewer than the 10
\* it would read, all carry the bit; none at all on an empty source), and it never
\* returns a partial value: Ok comes only with the terminating byte just consumed.
C20_TruncatedVarint ==
    (call.op = "decode_varint") =>
        LET ahead == Ahead(call.at)
        IN /\ (Len(ahead) < 10 /\ AllContinuation(ahead)) =>
                 (ret.kind = "Err" /\ ret.err = <<"UnexpectedEof">> /\ pos = Len(wire))
           /\ ret.kind = "Ok" =>
                 /\ pos - call.at \in 1..Len(ahead)
                 /\ ahead[pos - call.at] < 128
                 /\ \A j \in 1..(pos - call.at - 1) : ahead[j] >= 128

\* nine continuation-flagged bytes and nothing after them: UnexpectedEof
C20_Witness ==
    /\ call.op = "decode_varint"
    /\ Len(wire) = 9
    /\ AllContinuation(wire)
    /\ ret.kind = "Err"
    /\ ret.err = <<"UnexpectedEof">>
    /\ pos = 9

-----------------------------------------------------------------------------
(* Properties of embedded messages, checked under SpecMessage *)

\* C17: decode_message reads the length varint L and then exactly L bytes of the
\* outer source, hands those L bytes and no other to the message's
\* decode_from_slice, and on success leaves the outer source just after them
\* however many the message's decoder consumed: the message is the one those L
\* bytes alone decode to.  A length the source cannot fill is an error.
C17_SubMessageBounding ==
    (call.op = "decode_message") =>
        LET L == src.length
            first == call.at + Len(encode_varint(FromNat(64, L)))
            declared == SubSeq(wire, first + 1, first + L)
        IN IF first + L <= Len(wire)
           THEN /\ pos = first + L
                /\ ret.kind = "Ok" =>
                      /\ ret.value.given = declared
                      /\ ret.value.consumed <= L
                      /\ ret.value.msg = decode_from_reader(declared, 0).value
                /\ ret.kind = "Err" => ret.err = decode_from_reader(declared, 0).err
           ELSE ret.kind = "Err" /\ ret.err = IoError

\* a message of 3 declared bytes was decoded although its decoder consumed fewer, and
\* the field b that follows in the outer source stayed out of it
C17_Witness ==
    /\ call.op = "decode_message"
    /\ src.length = 3
    /\ Len(src.data) > 6
    /\ ret.kind = "Ok"
    /\ ret.value.given = <<8, 172, 2>>
    /\ ret.value.msg.a = FromNat(32, 300)
    /\ ret.value.msg.b = Zero(32)
    /\ pos = 4
    /\ wire[5] = 16

-----------------------------------------------------------------------------
(* Properties of packed repeated fields, checked under SpecPacked *)

\* C18: for a non-empty list encode_packed writes one LengthDelimited tag, one length
\* varint equal to the total byte count of the values' untagged encodings, then
\* those encodings in list order, and decode_packed_field with the matching item
\* decoder returns Ok(Some(the same list)); for an empty list it writes nothing.
C18_PackedRoundTrip ==
    (src.op = "encode_packed") =>
        IF src.values = <<>> THEN wire = <<>>
        ELSE LET tag == Tag_decode(wire, 0)
                 length == decode_varint(wire, tag.pos)
                 packed == write_values(src.kind, src.values)
             IN /\ tag.kind = "Some"
                /\ tag.value.field_number = FromNat(32, src.n)
                /\ tag.value.wire_type = 2
                /\ length.kind = "Ok"
                /\ length.value = FromNat(64, Len(packed))
                /\ SubSeq(wire, length.pos + 1, Len(wire)) = packed
                /\ call.op = "decode_packed_field" =>
                      (ret.kind = "Some" /\ ret.value = src.values /\ pos = Len(wire))

\* the list 300, 0, 1 of uint32 under field 16 came back from its four packed bytes
C18_Witness ==
    /\ src.op = "encode_packed"
    /\ src.kind = "uint32"
    /\ src.n = 16
    /\ src.values = <<FromNat(32, 300), Zero(32), FromNat(32, 1)>>
    /\ wire = <<130, 1, 4, 172, 2, 0, 1>>
    /\ call.op = "decode_packed_field"
    /\ ret.kind = "Some"
    /\ ret.value = src.values

-----------------------------------------------------------------------------
(* Properties of truncated input, checked under SpecCodec *)

\* C21: Tag::decode turns every UnexpectedEof of decode_varint into Ok(None): a source
\* that ends in the middle of a tag varint (one or more continuation-flagged bytes,
\* then the end of input) is reported as a clean end of message, exactly as an empty
\* source is, and not as an error.
C21_TruncatedTagIsNone ==
    (call.op = "decode_tag") =>
        LET ahead == Ahead(call.at)
            varint == decode_varint(wire, call.at)
        IN /\ (varint.kind = "Err" /\ varint.err = <<"UnexpectedEof">>) =>
                 (ret.kind = "None" /\ pos = Len(wire))
           /\ (Len(ahead) < 10 /\ AllContinuation(ahead)) =>
                 ret = [Tag_decode(<<>>, 0) EXCEPT !.pos = Len(wire)]

\* two continuation-flagged bytes and nothing after them were read as a tag: None
C21_Witness ==
    /\ call.op = "decode_tag"
    /\ wire = <<128, 255>> \/ wire = <<255, 255>> \/ wire = <<128, 128>>
    /\ ret.kind = "None"
    /\ pos = 2

-----------------------------------------------------------------------------
(* Properties of truncated payloads, checked under SpecTruncated *)

\* the source holds the whole length varint and fewer payload bytes than it declares
PayloadCut ==
    /\ src.op = "truncated"
    /\ src.given = Len(src.header)
    /\ SmallNat(src.length) = -1 \/ src.have < SmallNat(src.length)

\* C22: when the source ends before the declared length of a bytes, string, message
\* or packed payload, or before the 4 or 8 bytes of a fixed-width value, the decode
\* function returns Err(IoError), never UnexpectedEof; when it ends inside the
\* length varint itself the function returns Err(UnexpectedEof).
C22_TruncationKinds ==
    (call.op = "decode_payload") =>
        /\ (src.op = "short_fixed" /\ src.have < src.width) =>
              (ret.kind = "Err" /\ ret.err[1] = "IoError")
        /\ PayloadCut => (ret.kind = "Err" /\ ret.err[1] = "IoError")
        /\ (src.op = "truncated" /\ src.given < Len(src.header)) =>
              (ret.kind = "Err" /\ ret.err = <<"UnexpectedEof">>)

\* C22 for declared lengths a Vec can have (up to isize::MAX)
C22_BelowIsizeMax ==
    (call.op = "decode_payload" /\ (src.op = "truncated" => src.length[63] = 0)) =>
        C22_TruncationKinds

\* a payload of declared length 2^63 that is cut, and the decoder has been called
C22_Reached ==
    /\ call.op = "decode_payload"
    /\ PayloadCut
    /\ src.length[63] = 1
    /\ ret.kind = "Panic"

-----------------------------------------------------------------------------
(* Properties of the builder's calls of every kind, checked under SpecFields *)

\* the number of bytes the i-th accepted call appended
Wrote(i) == (IF i < Len(calls) THEN calls[i + 1].at ELSE Len(buffer)) - calls[i].at

\* the call c was made with a default value, an empty list or an empty map
NothingToWrite(c) ==
    \/ c.kind = "uint32" /\ c.v = Zero(32)
    \/ c.kind \in {"string", "bytes", "repeated", "packed", "map"} /\ c.v = <<>>

\* C23: an add_* call with a default value, an empty list or an empty map appends no
\* bytes but still records its field number n, and any later add_* call (of any kind)
\* with the same n on that builder aborts, leaving the buffer as it was.
C23_EmptyStillReserves ==
    /\ [](\A i \in 1..Len(calls) :
             NothingToWrite(calls[i]) => (Wrote(i) = 0 /\ calls[i].n \in field_numbers))
    /\ [][(last'.op = "add" /\ builderVars' # builderVars
           /\ \E i \in 1..Len(calls) : NothingToWrite(calls[i]) /\ calls[i].n = last'.n)
          => (phase' = "Aborted" /\ buffer' = buffer /\ calls' = calls)]_vars

\* add_packed(1, []) wrote nothing, and a later call with field number 1 aborted
C23_Witness ==
    /\ phase = "Aborted"
    /\ last.op = "add"
    /\ last.n = 1
    /\ Len(calls) = 1
    /\ calls[1].kind = "packed"
    /\ calls[1].v = <<>>
    /\ calls[1].n = 1
    /\ buffer = <<>>
    /\ field_numbers = {1}


\* the bytes the i-th accepted call appended
Appended(i) == SubSeq(buffer, calls[i].at + 1, calls[i].at + Wrote(i))

\* the bytes of the inner message of an add_message or add_message_with_trait call
InnerBytes(c) == IF c.kind = "message" THEN c.v.buffer ELSE encode_to_writer(c.v)

\* bytes are a LengthDelimited tag of field n, a length varint and the inner bytes
Framed(bytes, n, inner) ==
    LET tag == Tag_decode(bytes, 0)
        payload == decode_bytes(bytes, tag.pos)
    IN /\ tag.kind = "Some"
       /\ tag.value.field_number = FromNat(32, n)
       /\ tag.value.wire_type = 2
       /\ payload.kind = "Ok"
       /\ payload.value = inner
       /\ payload.pos = Len(bytes)
       /\ inner = <<>> => bytes = <<8 * n + 2, 0>>

\* C24: embedded messages are never omitted: encode_message, add_message and
\* add_message_with_trait always write the LengthDelimited tag and a length varint,
\* also when the inner message or inner builder encodes to zero bytes (the output is
\* then the tag followed by 0x00), unlike empty strings and byte blobs, which write
\* nothing.
C24_MessagesNeverOmitted ==
    /\ (src.op = "encode_message") => Framed(wire, src.n, encode_to_writer(src.message))
    /\ \A i \in 1..Len(calls) :
          /\ calls[i].kind \in {"message", "message_with_trait"} =>
                Framed(Appended(i), calls[i].n, InnerBytes(calls[i]))
          /\ (calls[i].kind \in {"string", "bytes"} /\ calls[i].v = <<>>) =>
                Appended(i) = <<>>

\* encode_message of a message of defaults wrote 0A 00, and so did add_message(1, ..)
\* of a new builder
C24_Witness ==
    /\ src.op = "encode_message"
    /\ src.n = 1
    /\ wire = <<10, 0>>
    /\ Len(calls) = 1
    /\ calls[1].kind = "message"
    /\ calls[1].n = 1
    /\ calls[1].v.buffer = <<>>
    /\ buffer = <<10, 0>>

-----------------------------------------------------------------------------
(* Properties of ten-byte varints, checked under SpecTenBytes *)

\* bit k (0 the lowest) of the byte b
BitOf(b, k) == (b \div (2 ^ k)) % 2

\* C25: decode_varint accepts every 10-byte varint whose tenth byte has the
\* continuation bit clear, whatever that byte's payload: only bit 0 of the tenth byte
\* reaches the result (as bit 63), payload bits 1..6 are discarded without an error,
\* so byte sequences that differ only there decode to the same u64, and the result
\* is a 64-bit value.
C25_TenthBytePayload ==
    (call.op = "decode_varint" /\ src.op = "ten_bytes") =>
        /\ ret.kind = "Ok"
        /\ pos = 10
        /\ DOMAIN ret.value = 0..63
        /\ ret.value[63] = BitOf(wire[10], 0)
        /\ \A i \in 0..62 : ret.value[i] = BitOf(wire[(i \div 7) + 1], i % 7)
        /\ ret.value = decode_varint([wire EXCEPT ![10] = wire[10] % 2], 0).value

\* a tenth byte 7E was accepted and its six payload bits left no trace in the result
C25_Witness ==
    /\ call.op = "decode_varint"
    /\ src.op = "ten_bytes"
    /\ wire[10] = 126
    /\ ret.kind = "Ok"
    /\ ret.value[63] = 0
    /\ ret.value = decode_varint([wire EXCEPT ![10] = 0], 0).value

-----------------------------------------------------------------------------
(* Properties of the Base64 codec, checked under SpecBase64 *)

\* the 64 characters of the alphabet: A-Z, a-z, 0-9, '+' and '/'
IsBase64Char(c) == c \in (65..90) \cup (97..122) \cup (48..57) \cup {43, 47}

\* C26: for every byte sequence b, encode_base64(b) has length 4 * ceil(len(b) / 3)
\* and uses only the 64 alphabet characters plus '=' padding at the end, and
\* decode_base64 of that text returns exactly b; decode_base64 returns an InvalidData
\* error for any input whose length, CR and LF removed, is not a multiple of 4.
C26_Base64RoundTrip ==
    /\ (src.op = "base64_data") =>
          /\ Len(wire) = 4 * ((Len(src.data) + 2) \div 3)
          /\ \A i \in 1..Len(wire) :
                \/ IsBase64Char(wire[i])
                \/ /\ wire[i] = 61
                   /\ i > Len(wire) - 2
                   /\ \A j \in i..Len(wire) : wire[j] = 61
          /\ (call.op = "decode_base64") => (ret.kind = "Ok" /\ ret.value = src.data)
    /\ (src.op = "base64_text" /\ call.op = "decode_base64"
        /\ Cardinality({i \in 1..Len(wire) : wire[i] \notin {13, 10}}) % 4 # 0) =>
          (ret.kind = "Err" /\ ret.err[1] = "InvalidData")

\* the four bytes FF 00 80 6F came back from the eight characters /wCAbw==
C26_Witness ==
    /\ src.op = "base64_data"
    /\ src.data = <<255, 0, 128, 111>>
    /\ wire = <<47, 119, 67, 65, 98, 119, 61, 61>>
    /\ call.op = "decode_base64"
    /\ ret.kind = "Ok"
    /\ ret.value = src.data

=============================================================================
